---- MODULE Spec2Model ----
(***************************************************************************)
(* Status aggregation and polling core of the Syncthing monitor backend:   *)
(* compose_payload (one aggregation cycle against the daemon's REST API),  *)
(* wait_for_updates (the long poll), and the pure classifiers they use.    *)
(*                                                                         *)
(* Text is a sequence of one-character strings, so that lower-casing,      *)
(* substring search and byte-wise ordering are computed, not assumed.      *)
(* Option<T> is a set with at most one element: None is {}, Some(x) is {x}.*)
(***************************************************************************)
EXTENDS Integers, Sequences, FiniteSets, TLC

\* ------------------------------------------------------------------ bounds

\* Width of the model's u64 (the code's is 64 bits): byte counts are 0..2^UBits-1.
UBits == 7
\* Significand width of the model's f64 (the code's is 53 bits). It stays below
\* UBits, as 53 stays below 64: converting a large u64 to f64 rounds.
MantBits == 5
\* Number of distinct event ids the daemon hands out.
MaxEventId == 3
\* Width of the model's u32 (the code's is 32 bits).
U32Bits == 2
\* Folders in the daemon's configuration.
MaxFolders == 2
\* Length of the configuration's device list.
MaxDevices == 2

\* ------------------------------------------------------------------ Option

None == {}
Some(x) == {x}
IsSome(o) == o # {}
Unwrap(o) == CHOOSE x \in o : TRUE
UnwrapOr(o, d) == IF o = {} THEN d ELSE CHOOSE x \in o : TRUE

\* ------------------------------------------------------------------ text

UpperCase ==
    << "A", "B", "C", "D", "E", "F", "G", "H", "I", "J", "K", "L", "M",
       "N", "O", "P", "Q", "R", "S", "T", "U", "V", "W", "X", "Y", "Z" >>
LowerCase ==
    << "a", "b", "c", "d", "e", "f", "g", "h", "i", "j", "k", "l", "m",
       "n", "o", "p", "q", "r", "s", "t", "u", "v", "w", "x", "y", "z" >>
\* The characters the model uses, in ascending byte order.
ByteOrder == << "-", "1", "2" >> \o UpperCase \o LowerCase

IndexIn(tbl, c) == CHOOSE k \in 1..Len(tbl) : tbl[k] = c
IsUpper(c) == \E k \in 1..Len(UpperCase) : UpperCase[k] = c
LowerChar(c) == IF IsUpper(c) THEN LowerCase[IndexIn(UpperCase, c)] ELSE c

\* str::to_ascii_lowercase, and str::to_lowercase on the ASCII text of the model.
to_ascii_lowercase(s) == [i \in 1..Len(s) |-> LowerChar(s[i])]
to_lowercase(s) == [i \in 1..Len(s) |-> LowerChar(s[i])]
eq_ignore_ascii_case(a, b) == to_ascii_lowercase(a) = to_ascii_lowercase(b)

\* str::contains
Contains(h, n) ==
    \E i \in 0..(Len(h) - Len(n)) : SubSeq(h, i + 1, i + Len(n)) = n

\* Ord for str: byte-wise lexicographic order.
StrLess(a, b) ==
    \E k \in 1..(Len(a) + 1) :
        /\ k <= Len(b)
        /\ \A j \in 1..(k - 1) : a[j] = b[j]
        /\ (k = Len(a) + 1 \/ IndexIn(ByteOrder, a[k]) < IndexIn(ByteOrder, b[k]))
StrLeq(a, b) == a = b \/ StrLess(a, b)

\* ------------------------------------------------------------------ numbers

Pow2(n) == 2 ^ n

\* With the sum wrapping around, as u64::wrapping_add.
wrapping_add(a, b) == (a + b) % Pow2(UBits)

U64Max == Pow2(UBits) - 1
U64 == 0..U64Max
saturating_sub(a, b) == IF b >= a THEN 0 ELSE a - b
saturating_add(a, b) == IF a + b > U64Max THEN U64Max ELSE a + b
U32Max == Pow2(U32Bits) - 1
saturating_add_u32(a, b) == IF a + b > U32Max THEN U32Max ELSE a + b

\* HashMap: a function on the set of its keys.
EmptyMap == << >>
MapGet(m, k) == IF k \in DOMAIN m THEN Some(m[k]) ELSE None
MapPut(m, k, v) == [x \in (DOMAIN m) \cup {k} |-> IF x = k THEN v ELSE m[x]]

\* The f64 arithmetic of models/peer.rs works on the daemon's percentages, where
\* only comparisons decide: its values are exact rationals <<n, d>>, d > 0, reduced.
RECURSIVE Gcd(_, _)
Gcd(a, b) == IF b = 0 THEN a ELSE Gcd(b, a % b)
Abs(a) == IF a < 0 THEN 0 - a ELSE a
Rat(n, d) == LET g == Gcd(Abs(n), d) IN << n \div g, d \div g >>
RatAdd(a, b) == Rat(a[1] * b[2] + b[1] * a[2], a[2] * b[2])
RatDivInt(a, k) == Rat(a[1], a[2] * k)
RatLess(a, b) == a[1] * b[2] < b[1] * a[2]

\* A float is <<m, e>>, standing for m * 2^e, with 2^(MantBits-1) <= m < 2^MantBits
\* (or <<0, 0>> for zero). RoundRat rounds the rational n/d (n >= 0, d > 0) to the
\* nearest float, ties to even, as IEEE 754 arithmetic does.
RECURSIVE BitLen(_)
BitLen(x) == IF x = 0 THEN 0 ELSE 1 + BitLen(x \div 2)
RoundRat(n, d) ==
    IF n = 0 THEN << 0, 0 >>
    ELSE LET \* floor(log2(n/d)) is BitLen(n) - BitLen(d), or one less
             l == BitLen(n) - BitLen(d)
             lg == IF (IF l >= 0 THEN n >= d * Pow2(l) ELSE n * Pow2(0 - l) >= d)
                   THEN l ELSE l - 1
             e == lg - (MantBits - 1)
             num == IF e >= 0 THEN n ELSE n * Pow2(0 - e)
             den == IF e >= 0 THEN d * Pow2(e) ELSE d
             q == num \div den
             r == num % den
             m == IF 2 * r > den \/ (2 * r = den /\ q % 2 = 1) THEN q + 1 ELSE q
         IN  IF m = Pow2(MantBits) THEN << Pow2(MantBits - 1), e + 1 >> ELSE << m, e >>

ToRat(f) == IF f[2] >= 0 THEN << f[1] * Pow2(f[2]), 1 >> ELSE << f[1], Pow2(0 - f[2]) >>
\* `x as f64`
FromU64(x) == RoundRat(x, 1)
FDiv(a, b) ==
    LET ra == ToRat(a)
        rb == ToRat(b)
    IN  RoundRat(ra[1] * rb[2], ra[2] * rb[1])
FMul(a, b) ==
    LET ra == ToRat(a)
        rb == ToRat(b)
    IN  RoundRat(ra[1] * rb[1], ra[2] * rb[2])
FLess(a, b) ==
    LET ra == ToRat(a)
        rb == ToRat(b)
    IN  ra[1] * rb[2] < rb[1] * ra[2]
FLeq(a, b) == ~FLess(b, a)
\* f64::clamp
FClamp(x, lo, hi) == IF FLess(x, lo) THEN lo ELSE IF FLess(hi, x) THEN hi ELSE x
F0 == << 0, 0 >>
F100 == FromU64(100)

\* ------------------------------------------------------- models/folder.rs

compute_completion(global_bytes, need_bytes) ==
    IF IsSome(global_bytes) /\ IsSome(need_bytes) /\ Unwrap(global_bytes) > 0
    THEN LET global == Unwrap(global_bytes)
             need == Unwrap(need_bytes)
             complete == saturating_sub(global, need)
         IN  FClamp(FMul(FDiv(FromU64(complete), FromU64(global)), F100), F0, F100)
    ELSE IF IsSome(global_bytes) /\ need_bytes = None /\ Unwrap(global_bytes) > 0
    THEN F100
    ELSE F0

FolderStateInfo(label, code) == [label |-> label, code |-> code]

sWaiting == << "w", "a", "i", "t", "i", "n", "g" >>
sScan == << "s", "c", "a", "n" >>
sSync == << "s", "y", "n", "c" >>
sPreparing == << "p", "r", "e", "p", "a", "r", "i", "n", "g" >>
sScanning == << "s", "c", "a", "n", "n", "i", "n", "g" >>
sSyncing == << "s", "y", "n", "c", "i", "n", "g" >>
sIdle == << "i", "d", "l", "e" >>
sError == << "e", "r", "r", "o", "r" >>

\* With every raw state classified as unknown.
raw_state_info_unknown(state, need_bytes) == FolderStateInfo("Unknown state", "Unknown")

\* humanize_folder_state past its paused test: the raw-state table.
raw_state_info(state, need_bytes) ==
    LET normalized == to_ascii_lowercase(UnwrapOr(state, << >>))
        state_value == UnwrapOr(state, << >>)
    IN  IF IsSome(state) /\ Contains(normalized, sWaiting) /\ Contains(normalized, sScan)
        THEN FolderStateInfo("Waiting to scan", "WaitingToScan")
        ELSE IF IsSome(state) /\ Contains(normalized, sWaiting) /\ Contains(normalized, sSync)
        THEN FolderStateInfo("Waiting to sync", "WaitingToSync")
        ELSE IF IsSome(state) /\ Contains(normalized, sPreparing) /\ Contains(normalized, sSync)
        THEN FolderStateInfo("Preparing to sync", "PreparingToSync")
        ELSE IF IsSome(state) /\ eq_ignore_ascii_case(state_value, sScanning)
        THEN FolderStateInfo("Scanning", "Scanning")
        ELSE IF IsSome(state) /\ eq_ignore_ascii_case(state_value, sSyncing)
        THEN FolderStateInfo("Syncing", "Syncing")
        ELSE IF IsSome(state) /\ eq_ignore_ascii_case(state_value, sIdle)
        THEN IF UnwrapOr(need_bytes, 0) = 0
             THEN FolderStateInfo("Up to date", "UpToDate")
             ELSE FolderStateInfo("Idle / pending changes", "PendingChanges")
        ELSE IF IsSome(state) /\ eq_ignore_ascii_case(state_value, sError)
        THEN FolderStateInfo("Error", "Error")
        ELSE IF UnwrapOr(need_bytes, 0) = 0
        THEN FolderStateInfo("Up to date", "UpToDate")
        ELSE FolderStateInfo("Unknown state", "Unknown")

\* With the paused test dropped.
humanize_folder_state_unpaused(paused, state, need_bytes) ==
    raw_state_info(state, need_bytes)

humanize_folder_state(paused, state, need_bytes) ==
    IF paused
    THEN FolderStateInfo("Paused", "Paused")
    ELSE raw_state_info(state, need_bytes)

\* FolderPayload::from_parts. `status` is the /rest/db/status document read through
\* get(..).and_then(as_u64 / as_str): a record of the four fields, each an Option.
FolderPayload_from_parts(folder, status, last_changes, peers_need_summary) ==
    LET paused == UnwrapOr(folder.paused, FALSE)
        state_info == humanize_folder_state(paused, status.state, status.needBytes)
    IN  [ id |-> folder.id,
          label |-> UnwrapOr(folder.label, folder.id),
          path |-> folder.path,
          state |-> state_info.label,
          state_code |-> state_info.code,
          state_raw |-> status.state,
          paused |-> paused,
          global_bytes |-> status.globalBytes,
          in_sync_bytes |-> status.inSyncBytes,
          need_bytes |-> status.needBytes,
          completion |-> compute_completion(status.globalBytes, status.needBytes),
          last_changes |-> last_changes,
          peers_need_summary |-> peers_need_summary ]

\* ------------------------------------------------------------------ JSON

\* serde_json::Value, as far as the code looks into it.
JStr(s) == [t |-> "str", s |-> s]
JNum(n) == [t |-> "num", n |-> n]
JArr(a) == [t |-> "arr", a |-> a]
JObj(o) == [t |-> "obj", o |-> o]
\* Value::get(key): None on anything but an object holding the key.
Get(v, key) == IF v.t = "obj" /\ key \in DOMAIN v.o THEN Some(v.o[key]) ELSE None
\* Option<&Value>::and_then(|v| v.as_str())
AsStr(o) == IF IsSome(o) /\ Unwrap(o).t = "str" THEN Some(Unwrap(o).s) ELSE None
\* Option<&Value>::and_then(|v| v.as_u64()) and as_f64, on the non-negative
\* integers of the model.
AsNum(o) == IF IsSome(o) /\ Unwrap(o).t = "num" THEN Some(Unwrap(o).n) ELSE None
OrElse(o, p) == IF IsSome(o) THEN o ELSE p

\* -------------------------------------------------------------- helpers.rs

RECENT_EVENTS_LIMIT == 200

FileEventTypes ==
    { "ItemFinished", "ItemStarted", "LocalIndexUpdated", "RemoteIndexUpdated",
      "ItemDownloaded", "FolderSummary", "FolderCompletion" }
is_file_event(event_type) == event_type \in FileEventTypes

\* An event's time is [text, instant]: the string, and the instant (in seconds)
\* parse_from_rfc3339 reads from it, None when it does not parse.
format_relative_time(iso_time, now) ==
    IF IsSome(iso_time.instant)
    THEN LET secs == now - Unwrap(iso_time.instant)
             trunc(a, b) == IF a >= 0 THEN a \div b ELSE 0 - ((0 - a) \div b)
         IN  IF secs < 60 THEN << 0, "just now" >>
             ELSE IF trunc(secs, 60) < 60 THEN << trunc(secs, 60), "min ago" >>
             ELSE IF trunc(secs, 3600) < 24 THEN << trunc(secs, 3600), "h ago" >>
             ELSE << trunc(secs, 86400), "d ago" >>
    ELSE << 0, iso_time.text >>

\* ------------------------------------------------------------ api_types.rs

folder_id(event) == AsStr(Get(event.data, "folder"))

\* The first entry of a JSON array offering a string under path, item or file.
RECURSIVE FirstPath(_, _)
FirstPath(entries, i) ==
    IF i > Len(entries) THEN None
    ELSE LET entry == entries[i]
             path == AsStr(OrElse(Get(entry, "path"),
                                  OrElse(Get(entry, "item"), Get(entry, "file"))))
         IN  IF IsSome(path) THEN path ELSE FirstPath(entries, i + 1)

\* Option<&Value>::and_then(|v| v.as_array())
AsArray(o) == IF IsSome(o) /\ Unwrap(o).t = "arr" THEN Some(Unwrap(o).a) ELSE None

file_name(event) ==
    LET item == AsStr(Get(event.data, "item"))
        file == AsStr(Get(event.data, "file"))
        items == AsArray(Get(event.data, "items"))
        files == AsArray(Get(event.data, "files"))
        in_items == IF IsSome(items) THEN FirstPath(Unwrap(items), 1) ELSE None
        in_files == IF IsSome(files) THEN FirstPath(Unwrap(files), 1) ELSE None
    IN  IF IsSome(item) THEN item
        ELSE IF IsSome(file) THEN file
        ELSE IF IsSome(in_items) THEN in_items
        ELSE in_files

RECURSIVE FirstAction(_, _)
FirstAction(entries, i) ==
    IF i > Len(entries) THEN None
    ELSE LET a == AsStr(Get(entries[i], "action"))
         IN  IF IsSome(a) THEN a ELSE FirstAction(entries, i + 1)

action(event) ==
    LET a == AsStr(Get(event.data, "action"))
        items == AsArray(Get(event.data, "items"))
    IN  IF IsSome(a) THEN a
        ELSE IF IsSome(items) THEN FirstAction(Unwrap(items), 1)
        ELSE None

origin(event) ==
    AsStr(OrElse(Get(event.data, "device"),
                 OrElse(Get(event.data, "peerID"), Get(event.data, "id"))))

\* ------------------------------------- aggregator.rs: latest_folder_changes

\* With the sort dropped: the events are scanned in the order the daemon sent them.
sort_events_by_id_desc_unsorted(events) == events

\* events.sort_by(|a, b| b.id.cmp(&a.id)): a stable sort, descending by id.
RECURSIVE sort_events_by_id_desc(_)
sort_events_by_id_desc(events) ==
    IF events = << >> THEN << >>
    ELSE LET done == sort_events_by_id_desc(SubSeq(events, 1, Len(events) - 1))
             x == events[Len(events)]
             \* x goes behind every event whose id is not below its own
             k == Cardinality({i \in 1..Len(done) : done[i].id >= x.id})
         IN  SubSeq(done, 1, k) \o << x >> \o SubSeq(done, k + 1, Len(done))

\* The loop over the sorted events. A FolderChange also records, as from_id, the
\* id of the event it was built from (history only: the code keeps no such field).
RECURSIVE collect_changes(_, _, _, _, _)
collect_changes(events, i, allowed, changes, now) ==
    IF i > Len(events) THEN changes
    ELSE LET event == events[i]
             fid == folder_id(event)
             fname == file_name(event)
             skip == collect_changes(events, i + 1, allowed, changes, now)
         IN  IF ~is_file_event(event.event_type) THEN skip
             ELSE IF fid = None THEN skip
             ELSE IF Unwrap(fid) \notin allowed THEN skip
             ELSE IF Unwrap(fid) \in DOMAIN changes THEN skip
             ELSE IF IsSome(fname)
             THEN collect_changes(events, i + 1, allowed,
                      MapPut(changes, Unwrap(fid),
                             [ name |-> Unwrap(fname),
                               action |-> UnwrapOr(action(event), event.event_type),
                               when |-> format_relative_time(event.time, now),
                               origin |-> origin(event),
                               from_id |-> event.id ]),
                      now)
             ELSE skip

\* latest_folder_changes, from the events the daemon answered with.
latest_folder_changes(events, allowed, now) ==
    collect_changes(sort_events_by_id_desc(events), 1, allowed, EmptyMap, now)

\* --------------------------------------------------------- models/peer.rs

PeerProgress_default ==
    [ total_completion |-> Rat(0, 1), completion_samples |-> 0,
      total_need_bytes |-> 0, folders |-> << >> ]

\* PeerProgress::record
record(self, folder, completion) ==
    [ total_completion |->
          IF IsSome(completion.completion)
          THEN RatAdd(self.total_completion, Unwrap(completion.completion))
          ELSE self.total_completion,
      completion_samples |->
          IF IsSome(completion.completion)
          THEN saturating_add_u32(self.completion_samples, 1)
          ELSE self.completion_samples,
      total_need_bytes |->
          IF IsSome(completion.need_bytes)
          THEN saturating_add(self.total_need_bytes, Unwrap(completion.need_bytes))
          ELSE self.total_need_bytes,
      folders |-> Append(self.folders,
                         [ folder_id |-> folder.id,
                           folder_label |-> UnwrapOr(folder.label, folder.id),
                           completion |-> completion.completion,
                           need_bytes |-> completion.need_bytes ]) ]

\* With the cap for outstanding need bytes dropped: only the cap at 100 is left.
avg_completion_uncapped(self) ==
    IF self.completion_samples = 0 THEN None
    ELSE LET average == RatDivInt(self.total_completion, self.completion_samples)
         IN  Some(IF RatLess(Rat(100, 1), average) THEN Rat(100, 1) ELSE average)

\* PeerProgress::avg_completion
avg_completion(self) ==
    IF self.completion_samples = 0 THEN None
    ELSE LET average == RatDivInt(self.total_completion, self.completion_samples)
             capped == IF self.total_need_bytes > 0 /\ RatLess(Rat(9999, 100), average)
                       THEN Rat(9999, 100) ELSE average
         IN  Some(IF RatLess(Rat(100, 1), capped) THEN Rat(100, 1) ELSE capped)

\* With the test for a sum above 0 dropped.
outstanding_need_always(self) == Some(self.total_need_bytes)

\* PeerProgress::outstanding_need
outstanding_need(self) ==
    IF self.total_need_bytes > 0 THEN Some(self.total_need_bytes) ELSE None

\* ------------------------------------------------------ models/overview.rs

\* SyncthingOverview::from_value. `value` is the /rest/system/status document: a
\* JSON value.
SyncthingOverview_from_value(value) ==
    [ available |-> TRUE,
      my_id |-> AsStr(Get(value, "myID")),
      version |-> AsStr(Get(value, "version")),
      state |-> AsStr(OrElse(Get(value, "state"), Get(value, "status"))),
      health |-> AsStr(OrElse(Get(value, "health"), Get(value, "status"))),
      started_at |-> AsStr(OrElse(Get(value, "startTime"), Get(value, "startedAt"))),
      uptime_seconds |-> AsNum(Get(value, "uptime")),
      sequence |-> AsNum(OrElse(Get(value, "sequence"), Get(value, "dbSequence"))),
      goroutine_count |-> AsNum(Get(value, "goroutineCount")),
      errors |-> << >> ]

\* With the overview of a failed cycle left marked available.
SyncthingOverview_error_available(message) ==
    [ available |-> TRUE, my_id |-> None, version |-> None, state |-> None,
      health |-> None, started_at |-> None, uptime_seconds |-> None,
      sequence |-> None, goroutine_count |-> None, errors |-> << message >> ]

\* SyncthingOverview::error: the Default of every field but the error list.
SyncthingOverview_error(message) ==
    [ available |-> FALSE, my_id |-> None, version |-> None, state |-> None,
      health |-> None, started_at |-> None, uptime_seconds |-> None,
      sequence |-> None, goroutine_count |-> None, errors |-> << message >> ]

\* ---------------------------------------------- aggregator.rs: compose_peers

\* One device of the configuration as a peer payload (the body of the loop).
PeerPayloadOf(device, connections, peer_progress) ==
    LET connection == MapGet(connections.connections, device.device_id)
        progress == MapGet(peer_progress, device.device_id)
    IN  [ id |-> device.device_id,
          name |-> UnwrapOr(device.name, device.device_id),
          connected |-> IF IsSome(connection) THEN Unwrap(connection).connected ELSE FALSE,
          paused |-> UnwrapOr(device.paused, FALSE)
                     \/ (IF IsSome(connection) THEN Unwrap(connection).paused ELSE FALSE),
          address |-> IF IsSome(connection) THEN Unwrap(connection).address ELSE None,
          client_version |->
              IF IsSome(connection) THEN Unwrap(connection).client_version ELSE None,
          last_seen |-> IF IsSome(connection) THEN Unwrap(connection).last_seen ELSE None,
          completion |-> IF IsSome(progress) THEN avg_completion(Unwrap(progress)) ELSE None,
          need_bytes |-> IF IsSome(progress) THEN outstanding_need(Unwrap(progress)) ELSE None,
          folders |-> IF IsSome(progress) THEN Unwrap(progress).folders ELSE << >> ]

\* Whether the loops over devices pass over this device id: it is empty, or the
\* local daemon's.
is_skipped_device(device_id, my_id) ==
    device_id = << >> \/ (IsSome(my_id) /\ Unwrap(my_id) = device_id)

\* With the comparison on the names as they are, not lower-cased.
peer_sort_key_raw(peer) == peer.name

\* The key peers.sort_by compares.
peer_sort_key(peer) == to_lowercase(peer.name)

\* peers.sort_by(..): a stable sort, ascending by key.
RECURSIVE sort_peers(_)
sort_peers(peers) ==
    IF peers = << >> THEN << >>
    ELSE LET done == sort_peers(SubSeq(peers, 1, Len(peers) - 1))
             x == peers[Len(peers)]
             k == Cardinality({i \in 1..Len(done) :
                                  StrLeq(peer_sort_key(done[i]), peer_sort_key(x))})
         IN  SubSeq(done, 1, k) \o << x >> \o SubSeq(done, k + 1, Len(done))

RECURSIVE push_peers(_, _, _, _, _)
push_peers(devices, i, my_id, peer_progress, connections) ==
    IF i > Len(devices) THEN << >>
    ELSE LET rest == push_peers(devices, i + 1, my_id, peer_progress, connections)
         IN  IF is_skipped_device(devices[i].device_id, my_id) THEN rest
             ELSE << PeerPayloadOf(devices[i], connections, peer_progress) >> \o rest

compose_peers(devices, my_id, peer_progress, connections) ==
    sort_peers(push_peers(devices, 1, my_id, peer_progress, connections))

\* ------------------------------------------------------------ the daemon

\* Device ids: the local daemon's, two remote ones, and the empty id.
dL == << "L" >>
dA == << "M" >>
dB == << "n" >>
dEmpty == << >>

\* A response to one GET: Ok(body), or the MonitorError of a failed call.
Ok(body) == [ok |-> TRUE, body |-> Some(body), error |-> None]
Failed(kind) == [ok |-> FALSE, body |-> None, error |-> Some(kind)]

\* /rest/system/status
StatusDocs ==
    { JObj([myID |-> JStr(dL), version |-> JStr("v1.27"), status |-> JStr("ok"),
            uptime |-> JNum(5)]),
      JObj([version |-> JStr("v1.27"), state |-> JStr("running")]) }

\* /rest/config: the first folders of FolderTable, and a device list.
FolderTable ==
    << [id |-> "f1", label |-> None, path |-> Some("/home/a"), paused |-> None,
        devices |-> << [device_id |-> dL], [device_id |-> dEmpty], [device_id |-> dA] >>],
       [id |-> "f2", label |-> Some("Docs"), path |-> None, paused |-> Some(TRUE),
        devices |-> << [device_id |-> dA], [device_id |-> dB] >>],
       [id |-> "f3", label |-> None, path |-> None, paused |-> Some(FALSE),
        devices |-> << >>] >>
DeviceEntries ==
    { [device_id |-> dL, name |-> None, paused |-> None],
      [device_id |-> dA, name |-> Some(<< "a" >>), paused |-> Some(TRUE)],
      [device_id |-> dB, name |-> Some(<< "B" >>), paused |-> Some(FALSE)] }
DeviceLists ==
    { devs \in UNION { [1..n -> DeviceEntries] : n \in 0..MaxDevices } :
        \A i, j \in 1..Len(devs) : i # j => devs[i] # devs[j] }
ConfigDocs ==
    { [folders |-> SubSeq(FolderTable, 1, nf), devices |-> devs] :
        nf \in 0..MaxFolders, devs \in DeviceLists }

\* /rest/events
tParsed == [text |-> "2025-01-01T00:00:00Z", instant |-> Some(0)]
tBroken == [text |-> "yesterday", instant |-> None]
EventKinds ==
    { [event_type |-> "ItemFinished", time |-> tParsed,
       data |-> JObj([folder |-> JStr("f1"), item |-> JStr("a.txt"),
                      action |-> JStr("update")])],
      [event_type |-> "FolderSummary", time |-> tParsed,
       data |-> JObj([folder |-> JStr("f1"), summary |-> JObj(EmptyMap)])],
      [event_type |-> "LocalIndexUpdated", time |-> tParsed,
       data |-> JObj([folder |-> JStr("f2"), items |-> JNum(2),
                      files |-> JArr(<< JObj([size |-> JNum(1)]),
                                        JObj([path |-> JStr("b.txt")]) >>)])],
      [event_type |-> "DeviceConnected", time |-> tParsed,
       data |-> JObj([folder |-> JStr("f1"), item |-> JStr("c.txt"),
                      id |-> JStr(dA)])],
      [event_type |-> "ItemStarted", time |-> tBroken,
       data |-> JObj([folder |-> JStr("zz"), file |-> JStr("d.txt")])],
      [event_type |-> "RemoteIndexUpdated", time |-> tParsed,
       data |-> JObj([folder |-> JNum(7), item |-> JStr("e.txt"),
                      device |-> JStr(dB)])] }
EventIds == { 10 * (k + 2) : k \in 1..MaxEventId }
Event(id, kind) ==
    [id |-> id, event_type |-> kind.event_type, time |-> kind.time, data |-> kind.data]
\* Every list of events with distinct ids, in any order.
EventLists ==
    { evs \in UNION { [1..n -> { Event(id, kind) : id \in EventIds, kind \in EventKinds }] :
                        n \in 0..MaxEventId } :
        \A i, j \in 1..Len(evs) : i # j => evs[i].id # evs[j].id }
\* The seconds the clock can show when the events are read.
Clock == { 30, 7300 }

\* /rest/system/connections
ConnectionsResponse_default == [connections |-> EmptyMap]
ConnectionsDocs ==
    { [connections |-> EmptyMap],
      [connections |->
          (dA :> [connected |-> TRUE, paused |-> FALSE, address |-> Some("tcp://10.0.0.2"),
                  client_version |-> Some("v1.27"), last_seen |-> None])
          @@ (dB :> [connected |-> FALSE, paused |-> TRUE, address |-> None,
                     client_version |-> None, last_seen |-> Some("2025-01-01")])
          @@ (dL :> [connected |-> TRUE, paused |-> FALSE, address |-> None,
                     client_version |-> None, last_seen |-> None])] }

\* /rest/db/completion
CompletionDocs ==
    { [completion |-> Some(Rat(100, 1)), need_bytes |-> Some(0)],
      [completion |-> Some(Rat(50, 1)), need_bytes |-> Some(3)] }

\* /rest/db/status
FolderStatusDocs ==
    { [globalBytes |-> Some(10), needBytes |-> Some(0), inSyncBytes |-> Some(10),
       state |-> Some(sIdle)],
      [globalBytes |-> Some(10), needBytes |-> Some(4), inSyncBytes |-> Some(6),
       state |-> Some(<< "S", "y", "n", "c", "i", "n", "g" >>)] }

\* ------------------------------------------------------------------ state

\* The loopback URLs discover pushes: texts of one piece.
HttpsLoopback == << "https://127.0.0.1:8384" >>
HttpLoopback == << "http://127.0.0.1:8384" >>

VARIABLES
    pc,                \* where the running call stands (its next await), or "done"
    status_value,      \* compose_payload: Option of the status document
    config,            \* compose_payload: Option of the configuration
    latest_changes,    \* compose_payload: folder id -> FolderChange
    connections,       \* compose_payload: the ConnectionsResponse
    folder_summaries,  \* collect_peer_metrics: folder id -> FolderPeerNeedSummary
    peer_progress,     \* collect_peer_metrics: device id -> PeerProgress
    folders,           \* compose_payload: the folder payloads pushed so far
    pair_idx,          \* collect_peer_metrics: position in the (folder, device) loops
    folder_idx,        \* compose_payload: position in the folder loop
    result,            \* Option of what compose_payload returned
    requests,          \* history: every daemon exchange of the cycle, in order
    since,             \* wait_for_updates: its `since` argument
    wait_result,       \* Option of what wait_for_updates returned
    cursor,            \* the caller's event cursor
    current_idx,       \* SyncthingClient.current_idx
    base_urls,         \* SyncthingClient.base_urls
    daemon_config,     \* the configuration document the daemon holds (Option)
    other,             \* Option of a second compose_payload, suspended at an await
    arg,               \* the arguments of a pure function under check
    ret                \* Option of what it returned

cycleVars ==
    << status_value, config, latest_changes, connections, folder_summaries,
       peer_progress, folders, pair_idx, folder_idx, result >>
waitVars == << since, wait_result, cursor, current_idx >>
envVars == << base_urls, daemon_config, other >>
pureVars == << arg, ret >>
vars == << pc, cycleVars, requests, waitVars, envVars, pureVars >>

\* One exchange with the daemon, as the history keeps it.
Exchange(path, folder, device, resp) ==
    [path |-> path, folder |-> folder, device |-> device, ok |-> resp.ok,
     body |-> resp.body]

Responses(docs) == { Ok(d) : d \in docs } \cup { Failed("Http") }

\* ------------------------------------------ aggregator.rs: compose_payload

\* The events the daemon answers the cycle's fetch with.
KindOf(event_type) == CHOOSE k \in EventKinds : k.event_type = event_type
CycleEventLists ==
    { << >>,
      << Event(30, KindOf("ItemFinished")), Event(50, KindOf("FolderSummary")) >> }

\* With the pairs taken device by device: for each device position, the folders
\* that have it.
metric_pairs_by_device(fs, i, my_id) ==
    LET keep(d, f) == d <= Len(fs[f].devices)
                          /\ ~is_skipped_device(fs[f].devices[d].device_id, my_id)
        all == { << f, d >> : f \in 1..Len(fs), d \in 1..3 }
        kept == { x \in all : keep(x[2], x[1]) }
        before(x, y) == x[2] < y[2] \/ (x[2] = y[2] /\ x[1] < y[1])
    IN  [k \in 1..Cardinality(kept) |->
            CHOOSE x \in kept : Cardinality({ y \in kept : before(y, x) }) = k - 1]

\* The (folder, device) pairs collect_peer_metrics queries, in loop order, as
\* positions <<folder index, device index>> in the configuration.
RECURSIVE metric_pairs(_, _, _)
metric_pairs(fs, i, my_id) ==
    IF i > Len(fs) THEN << >>
    ELSE LET keep(d) == ~is_skipped_device(fs[i].devices[d].device_id, my_id)
             ds == SelectSeq([d \in 1..Len(fs[i].devices) |-> d], keep)
         IN  [k \in 1..Len(ds) |-> << i, ds[k] >>] \o metric_pairs(fs, i + 1, my_id)

\* With the connections call awaited through `?`, like the mandatory calls.
connections_error_returns_propagating(resp) == ~resp.ok

\* Whether a failed connections call makes compose_payload return: the match on
\* fetch_connections has no returning arm.
connections_error_returns(resp) == FALSE

\* With a failed connections call leaving every configured remote connected.
connections_or_default_connected(resp) ==
    IF resp.ok THEN Unwrap(resp.body)
    ELSE [connections |->
             (dA :> [connected |-> TRUE, paused |-> FALSE, address |-> None,
                     client_version |-> None, last_seen |-> None])
             @@ (dB :> [connected |-> TRUE, paused |-> FALSE, address |-> None,
                        client_version |-> None, last_seen |-> None])]

\* The match on fetch_connections: the data, or the default on an error.
connections_or_default(resp) ==
    IF resp.ok THEN Unwrap(resp.body) ELSE ConnectionsResponse_default

\* With a failed folder status skipping the folder instead of returning.
folder_status_error_returns_never(resp) == FALSE

\* Whether a failed /rest/db/status call makes compose_payload return: the `?`.
folder_status_error_returns(resp) == ~resp.ok

\* With a failed completion query counted as a sample of nothing done.
completion_sample_zero(resp) ==
    IF resp.ok THEN resp.body
    ELSE Some([completion |-> Some(Rat(0, 1)), need_bytes |-> Some(1)])

\* The match on query_remote_completion: the completion to count, None on an error.
completion_sample(resp) == IF resp.ok THEN resp.body ELSE None

\* With the need > 0 test dropped: every answer is counted.
count_folder_summary_any_need(summaries, folder, remote_completion) ==
    LET need == UnwrapOr(remote_completion.need_bytes, 0)
        entry == UnwrapOr(MapGet(summaries, folder.id), [peer_count |-> 0, need_bytes |-> 0])
    IN  MapPut(summaries, folder.id,
               [peer_count |-> saturating_add_u32(entry.peer_count, 1),
                need_bytes |-> saturating_add(entry.need_bytes, need)])

\* The Ok arm of collect_peer_metrics for one (folder, device) pair.
count_folder_summary(summaries, folder, remote_completion) ==
    LET need == UnwrapOr(remote_completion.need_bytes, 0)
        entry == UnwrapOr(MapGet(summaries, folder.id), [peer_count |-> 0, need_bytes |-> 0])
    IN  IF need > 0
        THEN MapPut(summaries, folder.id,
                    [peer_count |-> saturating_add_u32(entry.peer_count, 1),
                     need_bytes |-> saturating_add(entry.need_bytes, need)])
        ELSE summaries
count_peer_progress(progress, folder, device_id, remote_completion) ==
    MapPut(progress, device_id,
           record(UnwrapOr(MapGet(progress, device_id), PeerProgress_default),
                  folder, remote_completion))

Err(resp) == [ok |-> FALSE, error |-> resp.error]

\* return Err(..): compose_payload ends with the error alone.
ReturnErr(resp) ==
    /\ pc' = "done"
    /\ result' = Some(Err(resp))

\* The end of compose_payload: the peers are composed and the payload returned.
ReturnOk(all_folders, conns) ==
    LET overview == SyncthingOverview_from_value(Unwrap(status_value))
    IN  /\ pc' = "done"
        /\ result' = Some([ ok |-> TRUE,
                            overview |-> overview,
                            folders |-> all_folders,
                            peers |-> compose_peers(Unwrap(config).devices, overview.my_id,
                                                    peer_progress, conns) ])

\* let status_value = get_json("/rest/system/status").await?
GetSystemStatus ==
    /\ pc = "status"
    /\ \E resp \in Responses(StatusDocs) :
        /\ requests' = Append(requests, Exchange("/rest/system/status", None, None, resp))
        /\ IF resp.ok
           THEN /\ status_value' = resp.body
                /\ pc' = "config"
                /\ UNCHANGED result
           ELSE /\ ReturnErr(resp)
                /\ UNCHANGED status_value
    /\ UNCHANGED << config, latest_changes, connections, folder_summaries,
                    peer_progress, folders, pair_idx, folder_idx >>
    /\ UNCHANGED << waitVars, envVars, pureVars >>

\* let config = get_json("/rest/config").await?, and latest_folder_changes up to
\* its own request: with no folder configured it asks the daemon nothing.
GetConfigFrom(docs) ==
    /\ pc = "config"
    /\ \E resp \in Responses(docs) :
        /\ requests' = Append(requests, Exchange("/rest/config", None, None, resp))
        /\ IF resp.ok
           THEN /\ config' = resp.body
                /\ pc' = IF Unwrap(resp.body).folders = << >> THEN "connections" ELSE "events"
                /\ UNCHANGED result
           ELSE /\ ReturnErr(resp)
                /\ UNCHANGED config
    /\ UNCHANGED << status_value, latest_changes, connections, folder_summaries,
                    peer_progress, folders, pair_idx, folder_idx >>
    /\ UNCHANGED << waitVars, envVars, pureVars >>

\* latest_folder_changes: the events request and the reduction of its answer.
GetRecentEvents ==
    /\ pc = "events"
    /\ \E resp \in Responses(CycleEventLists), now \in Clock :
        /\ requests' = Append(requests, Exchange("/rest/events", None, None, resp))
        /\ IF resp.ok
           THEN /\ latest_changes' =
                       latest_folder_changes(
                           Unwrap(resp.body),
                           { Unwrap(config).folders[i].id :
                               i \in 1..Len(Unwrap(config).folders) },
                           now)
                /\ pc' = "connections"
                /\ UNCHANGED result
           ELSE /\ ReturnErr(resp)
                /\ UNCHANGED latest_changes
    /\ UNCHANGED << status_value, config, connections, folder_summaries,
                    peer_progress, folders, pair_idx, folder_idx >>
    /\ UNCHANGED << waitVars, envVars, pureVars >>

\* fetch_connections and its match; then collect_peer_metrics up to its first
\* query, or, with nothing to query, the folder loop up to its first request.
FetchConnections ==
    /\ pc = "connections"
    /\ \E resp \in Responses(ConnectionsDocs) :
        LET my_id == SyncthingOverview_from_value(Unwrap(status_value)).my_id
            fs == Unwrap(config).folders
        IN  /\ requests' =
                   Append(requests, Exchange("/rest/system/connections", None, None, resp))
            /\ IF connections_error_returns(resp)
               THEN /\ ReturnErr(resp)
                    /\ UNCHANGED << connections, pair_idx, folder_idx >>
               ELSE /\ connections' = connections_or_default(resp)
                    /\ pair_idx' = 1
                    /\ folder_idx' = 1
                    /\ IF metric_pairs(fs, 1, my_id) # << >>
                       THEN pc' = "completion" /\ UNCHANGED result
                       ELSE IF fs # << >>
                       THEN pc' = "folder_status" /\ UNCHANGED result
                       ELSE ReturnOk(<< >>, connections_or_default(resp))
    /\ UNCHANGED << status_value, config, latest_changes, folder_summaries,
                    peer_progress, folders >>
    /\ UNCHANGED << waitVars, envVars, pureVars >>

\* One query_remote_completion of collect_peer_metrics and its match.
QueryRemoteCompletion ==
    /\ pc = "completion"
    /\ \E resp \in Responses(CompletionDocs) :
        LET my_id == SyncthingOverview_from_value(Unwrap(status_value)).my_id
            pairs == metric_pairs(Unwrap(config).folders, 1, my_id)
            folder == Unwrap(config).folders[pairs[pair_idx][1]]
            device_id == folder.devices[pairs[pair_idx][2]].device_id
            sample == completion_sample(resp)
        IN  /\ requests' =
                   Append(requests,
                          Exchange("/rest/db/completion", Some(folder.id), Some(device_id),
                                   resp))
            /\ IF IsSome(sample)
               THEN /\ folder_summaries' =
                           count_folder_summary(folder_summaries, folder, Unwrap(sample))
                    /\ peer_progress' =
                           count_peer_progress(peer_progress, folder, device_id,
                                               Unwrap(sample))
               ELSE UNCHANGED << folder_summaries, peer_progress >>
            /\ pair_idx' = pair_idx + 1
            /\ pc' = IF pair_idx < Len(pairs) THEN "completion" ELSE "folder_status"
    /\ UNCHANGED << status_value, config, latest_changes, connections, folders,
                    folder_idx, result >>
    /\ UNCHANGED << waitVars, envVars, pureVars >>

\* One turn of the folder loop: the /rest/db/status call and the payload pushed;
\* after the last folder, compose_peers and the return.
GetFolderStatus ==
    /\ pc = "folder_status"
    /\ \E resp \in Responses(FolderStatusDocs) :
        LET folder == Unwrap(config).folders[folder_idx]
            last_changes ==
                IF folder.id \in DOMAIN latest_changes
                THEN << latest_changes[folder.id] >> ELSE << >>
            pushed ==
                Append(folders,
                       FolderPayload_from_parts(folder, Unwrap(resp.body), last_changes,
                                                MapGet(folder_summaries, folder.id)))
            last == folder_idx = Len(Unwrap(config).folders)
        IN  /\ requests' =
                   Append(requests,
                          Exchange("/rest/db/status", Some(folder.id), None, resp))
            /\ IF folder_status_error_returns(resp)
               THEN /\ ReturnErr(resp)
                    /\ UNCHANGED << folders, folder_idx >>
               ELSE /\ folders' = IF resp.ok THEN pushed ELSE folders
                    /\ folder_idx' = folder_idx + 1
                    /\ IF last
                       THEN ReturnOk(IF resp.ok THEN pushed ELSE folders, connections)
                       ELSE pc' = "folder_status" /\ UNCHANGED result
    /\ UNCHANGED << status_value, config, latest_changes, connections,
                    folder_summaries, peer_progress, pair_idx >>
    /\ UNCHANGED << waitVars, envVars, pureVars >>

GetConfig == GetConfigFrom(ConfigDocs)

CycleIdle ==
    /\ status_value = None
    /\ config = None
    /\ latest_changes = EmptyMap
    /\ connections = ConnectionsResponse_default
    /\ folder_summaries = EmptyMap
    /\ peer_progress = EmptyMap
    /\ folders = << >>
    /\ pair_idx = 1
    /\ folder_idx = 1
    /\ result = None
    /\ requests = << >>
WaitIdle ==
    /\ since = 0
    /\ wait_result = None
    /\ cursor = 0
    /\ current_idx = 0
    /\ base_urls = << HttpsLoopback, HttpLoopback >>
    /\ daemon_config = None
    /\ other = None
PureIdle ==
    /\ arg = None
    /\ ret = None

\* One aggregation cycle: compose_payload called on a freshly discovered client.
Init ==
    /\ pc = "status"
    /\ CycleIdle
    /\ WaitIdle
    /\ PureIdle

Next ==
    \/ GetSystemStatus
    \/ GetConfig
    \/ GetRecentEvents
    \/ FetchConnections
    \/ QueryRemoteCompletion
    \/ GetFolderStatus

Spec == Init /\ [][Next]_vars

\* ------------------------------------- a configuration that repeats an id

\* Documents of /rest/config in which a folder id, a device id, or both, occur
\* twice: nothing in SyncthingConfig (Vec<FolderConfig>, Vec<DeviceConfig>) or in
\* its deserialisation rules that out.
RepeatedIdDocs ==
    LET f1 == FolderTable[1]
        f1_again == [FolderTable[1] EXCEPT !.label = Some("Again")]
        a == [device_id |-> dA, name |-> Some(<< "a" >>), paused |-> Some(TRUE)]
        a_again == [device_id |-> dA, name |-> Some(<< "B" >>), paused |-> None]
    IN  { [folders |-> << f1, f1_again >>, devices |-> << a >>],
          [folders |-> << f1 >>, devices |-> << a, a_again >>],
          [folders |-> << f1, f1_again >>, devices |-> << a, a_again >>] }

GetRepeatedIdConfig == GetConfigFrom(RepeatedIdDocs)

RepeatedIdNext ==
    \/ GetSystemStatus
    \/ GetRepeatedIdConfig
    \/ GetRecentEvents
    \/ FetchConnections
    \/ QueryRemoteCompletion
    \/ GetFolderStatus

SpecRepeatedId == Init /\ [][RepeatedIdNext]_vars

\* ---------------------------------- collect_peer_metrics: many answers

\* The Ok arm of collect_peer_metrics applied to answer after answer about one
\* folder and one device, up to more answers than a u32 counts.
MaxAnswers == U32Max + 2
AnswerDocs ==
    { [completion |-> Some(Rat(50, 1)), need_bytes |-> None],
      [completion |-> Some(Rat(50, 1)), need_bytes |-> Some(1)],
      [completion |-> Some(Rat(50, 1)), need_bytes |-> Some(U64Max - 1)] }

MetricsInit ==
    /\ pc = "metrics"
    /\ CycleIdle
    /\ WaitIdle
    /\ PureIdle

CountAnswer ==
    /\ pc = "metrics"
    /\ Len(UnwrapOr(MapGet(peer_progress, dA), PeerProgress_default).folders) < MaxAnswers
    /\ \E remote_completion \in AnswerDocs :
        /\ folder_summaries' =
               count_folder_summary(folder_summaries, FolderTable[1], remote_completion)
        /\ peer_progress' =
               count_peer_progress(peer_progress, FolderTable[1], dA, remote_completion)
    /\ UNCHANGED << pc, status_value, config, latest_changes, connections, folders,
                    pair_idx, folder_idx, result, requests >>
    /\ UNCHANGED << waitVars, envVars, pureVars >>

SpecMetrics == MetricsInit /\ [][CountAnswer]_vars

\* ------------------------------------------------------ two cycles at once

\* Two compose_payload calls, each on its own client, run on one executor: one
\* runs until its next await while the other is suspended there. A call's frame is
\* everything it holds: its position, its locals and those of its
\* collect_peer_metrics, and the exchanges of its own client.
Frame ==
    [ pc |-> pc, status_value |-> status_value, config |-> config,
      latest_changes |-> latest_changes, connections |-> connections,
      folder_summaries |-> folder_summaries, peer_progress |-> peer_progress,
      folders |-> folders, pair_idx |-> pair_idx, folder_idx |-> folder_idx,
      result |-> result, requests |-> requests ]

\* With the two maps kept in one place for every call: a call resumes with what
\* the call that just ran left there.
shared_accumulators(resumed, suspended) == suspended

\* let mut folder_summaries = HashMap::new(); let mut peer_progress = HashMap::new():
\* the maps are locals of each collect_peer_metrics call, so a call resumes with
\* its own.
own_accumulators(resumed, suspended) == resumed

\* The daemon of the two-cycle runs answers with one status document and one
\* configuration (one folder shared with one remote device), or fails.
SmallDaemon ==
    /\ status_value \in
           { None, Some(JObj([myID |-> JStr(dL), version |-> JStr("v1.27"),
                              status |-> JStr("ok"), uptime |-> JNum(5)])) }
    /\ config \in
           { None, Some([folders |-> SubSeq(FolderTable, 1, 1),
                         devices |-> << [device_id |-> dA, name |-> Some(<< "a" >>),
                                         paused |-> Some(TRUE)] >>]) }

ConcurrentInit ==
    /\ pc = "status"
    /\ CycleIdle
    /\ since = 0
    /\ wait_result = None
    /\ cursor = 0
    /\ current_idx = 0
    /\ base_urls = << HttpsLoopback, HttpLoopback >>
    /\ daemon_config = None
    /\ other = Some(Frame)
    /\ PureIdle

\* The running call proceeds to its next await (or returns).
CycleStep ==
    /\ Next
    /\ SmallDaemon'

\* The executor suspends the running call at its await and resumes the other.
Switch ==
    /\ IsSome(other)
    /\ LET resumed == Unwrap(other)
       IN  /\ other' = Some(Frame)
           /\ pc' = resumed.pc
           /\ status_value' = resumed.status_value
           /\ config' = resumed.config
           /\ latest_changes' = resumed.latest_changes
           /\ connections' = resumed.connections
           /\ folder_summaries' =
                  own_accumulators(resumed.folder_summaries, folder_summaries)
           /\ peer_progress' = own_accumulators(resumed.peer_progress, peer_progress)
           /\ folders' = resumed.folders
           /\ pair_idx' = resumed.pair_idx
           /\ folder_idx' = resumed.folder_idx
           /\ result' = resumed.result
           /\ requests' = resumed.requests
    /\ UNCHANGED << waitVars, base_urls, daemon_config, pureVars >>

ConcurrentNext ==
    \/ CycleStep
    \/ Switch

SpecConcurrent == ConcurrentInit /\ [][ConcurrentNext]_vars

\* ------------------------------------------------- the pure functions alone

\* compute_completion applied to every pair of byte counts.
CompletionInit ==
    /\ pc = "compute_completion"
    /\ arg \in { Some([global_bytes |-> g, need_bytes |-> n]) :
                   g \in {None} \cup { Some(x) : x \in U64 },
                   n \in {None} \cup { Some(x) : x \in U64 } }
    /\ ret = None
    /\ CycleIdle
    /\ WaitIdle

ComputeCompletion ==
    /\ pc = "compute_completion"
    /\ ret' = Some(compute_completion(Unwrap(arg).global_bytes, Unwrap(arg).need_bytes))
    /\ pc' = "done"
    /\ UNCHANGED << arg, cycleVars, requests, waitVars, envVars >>

SpecCompletion == CompletionInit /\ [][ComputeCompletion]_vars

\* humanize_folder_state applied to raw states in their spellings.
sUnknown == << "u", "n", "k", "n", "o", "w", "n" >>
sCleaning == << "c", "l", "e", "a", "n", "i", "n", "g" >>
Dash == << "-" >>
UpperChar(c) ==
    IF \E k \in 1..Len(LowerCase) : LowerCase[k] = c
    THEN UpperCase[IndexIn(LowerCase, c)] ELSE c
Shout(s) == [i \in 1..Len(s) |-> UpperChar(s[i])]
Capitalized(s) == [i \in 1..Len(s) |-> IF i = 1 THEN UpperChar(s[i]) ELSE s[i]]
RawStateWords ==
    { sIdle, sScanning, sSyncing, sError, sUnknown, sCleaning, sWaiting, sScan, sSync,
      sPreparing, << >>,
      sScan \o Dash \o sWaiting, sSync \o Dash \o sWaiting, sSync \o Dash \o sPreparing,
      << "c", "l", "e", "a", "n" >> \o Dash \o sWaiting,
      sWaiting \o Dash \o sSync \o Dash \o sScan,
      sPreparing \o Dash \o sSync \o Dash \o sWaiting,
      sIdle \o << "2" >>, sError \o << "s" >>, << "r", "e" >> \o sScanning }
RawStates ==
    RawStateWords \cup { Shout(w) : w \in RawStateWords }
        \cup { Capitalized(w) : w \in RawStateWords }

StateInit ==
    /\ pc = "humanize_folder_state"
    /\ arg \in { Some([paused |-> p, state |-> st, need_bytes |-> n]) :
                   p \in BOOLEAN,
                   st \in {None} \cup { Some(w) : w \in RawStates },
                   n \in {None, Some(0), Some(1), Some(U64Max)} }
    /\ ret = None
    /\ CycleIdle
    /\ WaitIdle

HumanizeFolderState ==
    /\ pc = "humanize_folder_state"
    /\ ret' = Some(humanize_folder_state(Unwrap(arg).paused, Unwrap(arg).state,
                                         Unwrap(arg).need_bytes))
    /\ pc' = "done"
    /\ UNCHANGED << arg, cycleVars, requests, waitVars, envVars >>

SpecState == StateInit /\ [][HumanizeFolderState]_vars

\* FolderPayload::from_parts applied to every configured folder and every status
\* document: any raw state or none, need bytes absent, 0 or more.
FolderInit ==
    /\ pc = "from_parts"
    /\ arg \in { Some([folder |-> FolderTable[k],
                       status |-> [globalBytes |-> g, needBytes |-> n,
                                   inSyncBytes |-> Some(0), state |-> st]]) :
                   k \in 1..Len(FolderTable),
                   g \in { None, Some(10) },
                   n \in { None, Some(0), Some(1), Some(U64Max) },
                   st \in { None } \cup { Some(w) : w \in RawStates } }
    /\ ret = None
    /\ CycleIdle
    /\ WaitIdle

BuildFolderPayload ==
    /\ pc = "from_parts"
    /\ ret' = Some(FolderPayload_from_parts(Unwrap(arg).folder, Unwrap(arg).status,
                                            << >>, None))
    /\ pc' = "done"
    /\ UNCHANGED << arg, cycleVars, requests, waitVars, envVars >>

SpecFolder == FolderInit /\ [][BuildFolderPayload]_vars

\* latest_folder_changes applied to every answer to the events request, for a
\* configuration with the folders f1 and f2.
EventsAllowed == { "f1", "f2" }
EventsInit ==
    /\ pc = "latest_folder_changes"
    /\ arg \in { Some([events |-> evs, now |-> now]) : evs \in EventLists, now \in Clock }
    /\ ret = None
    /\ CycleIdle
    /\ WaitIdle

LatestFolderChanges ==
    /\ pc = "latest_folder_changes"
    /\ ret' = Some(latest_folder_changes(Unwrap(arg).events, EventsAllowed,
                                         Unwrap(arg).now))
    /\ pc' = "done"
    /\ UNCHANGED << arg, cycleVars, requests, waitVars, envVars >>

SpecEvents == EventsInit /\ [][LatestFolderChanges]_vars

\* The field extractors of SyncthingEvent applied to payloads of every shape.
\* Entries of an items / files array: no object, an object whose first candidate
\* holds a number, and objects that offer strings.
FieldEntries ==
    << JStr("entry"),
       JObj([path |-> JNum(7), item |-> JStr("i2"), action |-> JNum(0)]),
       JObj([file |-> JStr("f3"), action |-> JStr("a3")]),
       JObj([path |-> JStr("p4"), file |-> JStr("f4")]) >>
\* What a payload can hold under a key: a string (the key's own name) or a number
\* under the flat keys, a number or an array of entries under items and files.
FieldValues(key) ==
    IF key \in { "items", "files" }
    THEN { JNum(7), JArr(<< FieldEntries[1], FieldEntries[3] >>),
           JArr(<< FieldEntries[2], FieldEntries[4] >>) }
    ELSE { JStr(key), JNum(7) }
\* A key is absent from a payload or holds one of its values.
FieldChoices(key) == { None } \cup { Some(v) : v \in FieldValues(key) }
FieldPayloads ==
    { LET choice == [ device |-> c1, peerID |-> c2, id |-> c3, item |-> c4,
                      file |-> c5, action |-> c6, items |-> c7, files |-> c8 ]
      IN  JObj([k \in { x \in DOMAIN choice : IsSome(choice[x]) } |-> Unwrap(choice[k])]) :
          c1 \in FieldChoices("device"), c2 \in FieldChoices("peerID"),
          c3 \in FieldChoices("id"), c4 \in FieldChoices("item"),
          c5 \in FieldChoices("file"), c6 \in FieldChoices("action"),
          c7 \in FieldChoices("items"), c8 \in FieldChoices("files") }
        \cup { JStr("data"), JNum(1), JArr(<< >>) }

FieldsInit ==
    /\ pc = "fields"
    /\ arg \in { Some([data |-> d]) : d \in FieldPayloads }
    /\ ret = None
    /\ CycleIdle
    /\ WaitIdle

ExtractFields ==
    /\ pc = "fields"
    /\ ret' = Some([ origin |-> origin(Unwrap(arg)),
                     file_name |-> file_name(Unwrap(arg)),
                     action |-> action(Unwrap(arg)) ])
    /\ pc' = "done"
    /\ UNCHANGED << arg, cycleVars, requests, waitVars, envVars >>

SpecFields == FieldsInit /\ [][ExtractFields]_vars

\* compose_peers applied to a device list and to the same devices in another
\* order. The devices are those of the daemon and one more whose name differs
\* from another's only in case.
dC == << "o" >>
ReorderDevices ==
    DeviceEntries \cup { [device_id |-> dC, name |-> Some(<< "A" >>), paused |-> None] }
Reorderings(devs) ==
    { [i \in 1..Len(devs) |-> devs[p[i]]] :
        p \in { q \in [1..Len(devs) -> 1..Len(devs)] :
                  \A i, j \in 1..Len(devs) : i # j => q[i] # q[j] } }
ReorderInit ==
    /\ pc = "compose_peers"
    /\ arg \in UNION {
           { Some([devices |-> devs, reordered |-> other_order, my_id |-> my_id,
                   connections |-> conns]) :
               other_order \in Reorderings(devs), my_id \in { None, Some(dL) },
               conns \in ConnectionsDocs } :
           devs \in { d \in UNION { [1..n -> ReorderDevices] : n \in 0..MaxDevices } :
                        \A i, j \in 1..Len(d) : i # j => d[i] # d[j] } }
    /\ ret = None
    /\ CycleIdle
    /\ WaitIdle

ComposePeersTwice ==
    /\ pc = "compose_peers"
    /\ LET a == Unwrap(arg)
       IN  ret' = Some([ peers |-> compose_peers(a.devices, a.my_id, EmptyMap,
                                                 a.connections),
                         peers_reordered |-> compose_peers(a.reordered, a.my_id, EmptyMap,
                                                           a.connections) ])
    /\ pc' = "done"
    /\ UNCHANGED << arg, cycleVars, requests, waitVars, envVars >>

SpecReorder == ReorderInit /\ [][ComposePeersTwice]_vars

\* ------------------------------------------- client.rs: wait_for_updates

\* The timeouts a caller asks for, in milliseconds.
Timeouts == { 0, 999, 1500, 300000, 300999, 301000 }
\* Duration::as_secs
as_secs(millis) == millis \div 1000
\* With the lower bound alone.
clamp_low(x, lo, hi) == IF x < lo THEN lo ELSE x
\* Ord::clamp
clamp(x, lo, hi) == IF x < lo THEN lo ELSE IF x > hi THEN hi ELSE x

\* The events the daemon answers a long poll with: at most two, of any ids.
WaitEventLists ==
    UNION { [1..n -> { Event(id, KindOf("ItemFinished")) : id \in EventIds }] :
              n \in 0..2 }

\* With the id of the last event returned taken, whatever the ids before it.
last_event_id_of_last(since_id, events) ==
    IF events = << >> THEN since_id ELSE events[Len(events)].id

\* With the loop started from 0 instead of since: the greatest id returned.
last_event_id_of_unseeded(since_id, events) ==
    IF events = << >> THEN since_id
    ELSE CHOOSE m \in { events[i].id : i \in 1..Len(events) } :
             \A i \in 1..Len(events) : events[i].id <= m

\* The loop of wait_for_updates over the events returned.
RECURSIVE last_event_id_of(_, _)
last_event_id_of(since_id, events) ==
    IF events = << >> THEN since_id
    ELSE LET last_event_id == last_event_id_of(since_id, SubSeq(events, 1, Len(events) - 1))
             event == events[Len(events)]
         IN  IF event.id > last_event_id THEN event.id ELSE last_event_id

\* Client::builder().timeout(Duration::from_secs(8)): the timeout, in seconds, of
\* every request the client sends; get_json_with_query sets none of its own.
client_timeout_secs == 8

\* The seconds the daemon holds a long poll before it answers: none, as long as
\* the client's timeout, or as long as the timeout the query asks for.
HoldSeconds(timeout_secs) ==
    { h \in { 0, client_timeout_secs, timeout_secs } : h <= timeout_secs }

\* .send().await and .json().await under the client's timeout: an answer that
\* comes before it is received, one that comes after it is never seen (the
\* request has ended in a transport error), and at the very instant either happens.
outcomes(held, answer) ==
    IF held < client_timeout_secs THEN { answer }
    ELSE IF held = client_timeout_secs THEN { answer, Failed("Http") }
    ELSE { Failed("Http") }

\* With the error of the long poll swallowed into an empty result.
wait_error_default(resp) == [ok |-> TRUE, last_event_id |-> 0, has_updates |-> FALSE]

\* get_json_with_query(..).await?: what wait_for_updates returns on a failed call.
wait_error(resp) == Err(resp)

\* wait_for_updates up to its await: the caller passes its cursor as `since`, and
\* the one events query is sent.
CallWaitForUpdates ==
    /\ pc = "idle"
    /\ \E timeout \in Timeouts :
        requests' = << [ path |-> "/rest/events", since |-> cursor, limit |-> 1,
                         timeout |-> clamp(as_secs(timeout), 1, 300),
                         base |-> current_idx, ok |-> FALSE, body |-> None,
                         asked |-> timeout, held |-> 0, answer |-> None ] >>
    /\ since' = cursor
    /\ wait_result' = None
    /\ pc' = "wait"
    /\ UNCHANGED << cursor, current_idx, cycleVars, pureVars, envVars >>

\* The daemon answers after holding the request, the transport delivers the
\* answer or its own error, and wait_for_updates returns.
WaitResponse ==
    /\ pc = "wait"
    /\ \E answer \in Responses(WaitEventLists) \cup { Failed("Syncthing") },
          held \in HoldSeconds(requests[1].timeout) :
      \E resp \in outcomes(held, answer) :
        /\ requests' = << [requests[1] EXCEPT !.ok = resp.ok, !.body = resp.body,
                                              !.held = held, !.answer = answer.body] >>
        /\ wait_result' =
               IF resp.ok
               THEN Some([ ok |-> TRUE,
                           last_event_id |-> last_event_id_of(since, Unwrap(resp.body)),
                           has_updates |-> Unwrap(resp.body) # << >> ])
               ELSE Some(wait_error(resp))
    /\ pc' = "returned"
    /\ UNCHANGED << since, cursor, current_idx, cycleVars, pureVars, envVars >>

\* The caller drops the future before the response arrives.
WaitCancelled ==
    /\ pc = "wait"
    /\ pc' = "cancelled"
    /\ UNCHANGED << since, wait_result, cursor, current_idx, requests, cycleVars,
                    pureVars, envVars >>

\* The caller, owner of the event cursor: it takes lastEventId from a result, and
\* after an error or a cancelled call goes on with the cursor it has.
CallerResumes ==
    /\ pc \in { "returned", "cancelled" }
    /\ cursor' = IF IsSome(wait_result) /\ Unwrap(wait_result).ok
                 THEN Unwrap(wait_result).last_event_id ELSE cursor
    /\ pc' = "idle"
    /\ UNCHANGED << since, wait_result, current_idx, requests, cycleVars, pureVars,
                    envVars >>

WaitInit ==
    /\ pc = "idle"
    /\ CycleIdle
    /\ WaitIdle
    /\ PureIdle

WaitNext ==
    \/ CallWaitForUpdates
    \/ WaitResponse
    \/ WaitCancelled
    \/ CallerResumes

SpecWait == WaitInit /\ [][WaitNext]_vars

\* ------------------------------------ client.rs: discover; helpers.rs: API key

\* The texts of discovery are sequences of pieces: a piece is one whitespace
\* character, one of the two tags, or a run of other characters.
start_tag == "<apikey>"
end_tag == "</apikey>"

\* str::trim: the text from its first piece that is not whitespace to its last.
trim(s) ==
    LET kept == { i \in 1..Len(s) : s[i] # " " }
    IN  IF kept = {} THEN << >>
        ELSE SubSeq(s, CHOOSE i \in kept : \A j \in kept : i <= j,
                       CHOOSE i \in kept : \A j \in kept : j <= i)

\* str::find of a one-piece pattern: Option of the position of its first occurrence.
find(s, pat) ==
    IF \E i \in 1..Len(s) : s[i] = pat
    THEN Some(CHOOSE i \in 1..Len(s) : s[i] = pat /\ \A j \in 1..(i - 1) : s[j] # pat)
    ELSE None

extract_api_key(contents) ==
    LET start == find(contents, start_tag)
    IN  IF start = None THEN None
        ELSE LET rest == SubSeq(contents, Unwrap(start) + 1, Len(contents))
                 end == find(rest, end_tag)
             IN  IF end = None THEN None
                 ELSE Some(trim(SubSeq(rest, 1, Unwrap(end) - 1)))

\* load_api_key. `api_key_env` is env::var("SYNCTHING_API_KEY") and `config_xml`
\* what fs::read_to_string gives for the daemon's config.xml: each an Option.
load_api_key(api_key_env, config_xml) ==
    IF IsSome(api_key_env) /\ trim(Unwrap(api_key_env)) # << >>
    THEN [ok |-> TRUE, value |-> Unwrap(api_key_env)]
    ELSE IF config_xml = None
    THEN [ok |-> FALSE, error |-> "Io"]
    ELSE LET key == extract_api_key(Unwrap(config_xml))
         IN  IF IsSome(key) THEN [ok |-> TRUE, value |-> Unwrap(key)]
             ELSE [ok |-> FALSE, error |-> "MissingApiKey"]

\* With every candidate pushed, whether the list has it or not.
push_unique_url_always(list, candidate) == Append(list, candidate)

push_unique_url(list, candidate) ==
    IF \E i \in 1..Len(list) : list[i] = candidate THEN list ELSE Append(list, candidate)

\* SyncthingClient::discover. `api_url_env` is env::var("SYNCTHING_API_URL"), and
\* `built` whether Client::builder()..build() gives a client.
discover(api_key_env, config_xml, api_url_env, built) ==
    LET api_key == load_api_key(api_key_env, config_xml)
        custom == IF IsSome(api_url_env) /\ trim(Unwrap(api_url_env)) # << >>
                  THEN push_unique_url(<< >>, trim(Unwrap(api_url_env)))
                  ELSE << >>
        pushed == push_unique_url(push_unique_url(custom, HttpsLoopback), HttpLoopback)
        urls == IF pushed = << >> THEN << HttpLoopback >> ELSE pushed
    IN  IF ~api_key.ok THEN api_key
        ELSE IF ~built THEN [ok |-> FALSE, error |-> "Http"]
        ELSE [ok |-> TRUE, api_key |-> api_key.value, base_urls |-> urls,
              current_idx |-> 0]

\* The environment of a discovery: the two variables, unset, blank or set, the
\* daemon's config.xml, unreadable or with the contents given, and whether the
\* HTTP client can be built.
DiscoverInit ==
    /\ pc = "discover"
    /\ arg \in
         { Some([api_key_env |-> k, config_xml |-> x, api_url_env |-> u, built |-> b]) :
             k \in { None, Some(<< >>), Some(<< " ", " " >>), Some(<< "envkey" >>),
                     Some(<< " ", "envkey" >>) },
             x \in { None, Some(<< >>), Some(<< "<gui>", "</gui>" >>),
                     Some(<< "<gui>", start_tag, "filekey" >>),
                     Some(<< end_tag, "<gui>" >>),
                     Some(<< "<gui>", start_tag, " ", "filekey", " ", end_tag, "</gui>" >>),
                     Some(<< start_tag, end_tag >>),
                     Some(<< end_tag, start_tag, "k1", end_tag, start_tag, "k2", end_tag >>) },
             u \in { None, Some(<< >>), Some(<< " " >>), Some(<< "http://nas:8384" >>),
                     Some(<< " ", "http://nas:8384", " " >>),
                     Some(HttpsLoopback), Some(HttpLoopback \o << " " >>) },
             b \in BOOLEAN }
    /\ ret = None
    /\ CycleIdle
    /\ WaitIdle

Discover ==
    /\ pc = "discover"
    /\ ret' = Some(discover(Unwrap(arg).api_key_env, Unwrap(arg).config_xml,
                            Unwrap(arg).api_url_env, Unwrap(arg).built))
    /\ pc' = "done"
    /\ UNCHANGED << arg, cycleVars, requests, waitVars, envVars >>

SpecDiscover == DiscoverInit /\ [][Discover]_vars

\* ------------------------------------------ models/overview.rs: the overview

\* Both constructors applied: from_value to status documents holding any of seven
\* keys (a list under "errors" among them), error to a message.
OverviewInit ==
    /\ pc = "overview"
    /\ arg \in
         { Some([fn |-> "from_value",
                 value |-> JObj([k \in keys |->
                     CASE k = "uptime" -> JNum(5)
                       [] k = "errors" -> JArr(<< JStr("disk full") >>)
                       [] k = "state" -> JNum(2)
                       [] OTHER -> JStr(k)])]) :
             keys \in SUBSET { "myID", "version", "state", "status", "startTime",
                               "uptime", "errors" } }
         \cup { Some([fn |-> "error", message |-> m]) :
                  m \in { "", "Http", "/rest/config returned 403" } }
    /\ ret = None
    /\ CycleIdle
    /\ WaitIdle

BuildOverview ==
    /\ pc = "overview"
    /\ ret' = Some(IF Unwrap(arg).fn = "from_value"
                   THEN SyncthingOverview_from_value(Unwrap(arg).value)
                   ELSE SyncthingOverview_error(Unwrap(arg).message))
    /\ pc' = "done"
    /\ UNCHANGED << arg, cycleVars, requests, waitVars, envVars >>

SpecOverview == OverviewInit /\ [][BuildOverview]_vars

\* ------------------------- client.rs: get_gui_address and set_gui_address

\* The most calls made on the client, and the most writes by another writer.
MaxCalls == 2
MaxWrites == 1

\* With the base URL after the selected one taken, when there is one.
selected_base_next(urls, idx) == urls[IF idx + 2 <= Len(urls) THEN idx + 2 ELSE idx + 1]

\* &self.base_urls[self.current_idx.min(self.base_urls.len().saturating_sub(1))],
\* indices counting from 0.
selected_base(urls, idx) ==
    urls[(IF idx < saturating_sub(Len(urls), 1) THEN idx ELSE saturating_sub(Len(urls), 1)) + 1]

\* set_gui_address on the document it has read: "address" inserted into the "gui"
\* object, when the document has one.
insert_gui_address(document, new_address) ==
    IF IsSome(Get(document, "gui")) /\ Unwrap(Get(document, "gui")).t = "obj"
    THEN JObj(MapPut(document.o, "gui",
                     JObj(MapPut(document.o["gui"].o, "address", JStr(new_address)))))
    ELSE document

\* One request sent to the selected base URL and its outcome. `call` numbers the
\* calls on the client; `before` and `after` are the daemon's document as the
\* request reached it and as it left it (history only).
Sent(call, method, path, resp, after) ==
    [ call |-> call, method |-> method, path |-> path,
      base |-> selected_base(base_urls, current_idx), ok |-> resp.ok, body |-> resp.body,
      before |-> daemon_config, after |-> after ]

\* A client discovered with an override, with only the loopback URLs, or with the
\* http loopback URL as override; a daemon whose document has a gui object, none,
\* or a gui that is no object.
GuiInit ==
    /\ pc = "idle"
    /\ base_urls \in { discover(Some(<< "k" >>), None, u, TRUE).base_urls :
                         u \in { None, Some(<< "http://nas:8384" >>), Some(HttpLoopback) } }
    /\ daemon_config \in
         { Some(JObj([gui |-> JObj([address |-> JStr("127.0.0.1:8384"), user |-> JStr("u1")]),
                      folders |-> JNum(0)])),
           Some(JObj([folders |-> JNum(0)])),
           Some(JObj([gui |-> JStr("off"), folders |-> JNum(0)])) }
    /\ other = None
    /\ current_idx = 0
    /\ since = 0
    /\ wait_result = None
    /\ cursor = 0
    /\ CycleIdle
    /\ PureIdle

\* The number of the next call on the client.
NextCall == IF requests = << >> THEN 1 ELSE requests[Len(requests)].call + 1

\* get_gui_address: one GET of /rest/config and the address read from it.
GetGuiAddress ==
    /\ pc = "idle"
    /\ NextCall <= MaxCalls
    /\ \E resp \in { Ok(Unwrap(daemon_config)), Failed("Http"), Failed("Syncthing") } :
        /\ requests' = Append(requests,
                              Sent(NextCall, "GET", "/rest/config", resp, daemon_config))
        /\ result' =
               IF ~resp.ok THEN Some(Err(resp))
               ELSE LET address == AsStr(IF IsSome(Get(Unwrap(resp.body), "gui"))
                                         THEN Get(Unwrap(Get(Unwrap(resp.body), "gui")),
                                                  "address")
                                         ELSE None)
                    IN  IF IsSome(address) THEN Some([ok |-> TRUE, value |-> Unwrap(address)])
                        ELSE Some([ok |-> FALSE, error |-> Some("Syncthing")])
    /\ UNCHANGED << pc, status_value, config, latest_changes, connections,
                    folder_summaries, peer_progress, folders, pair_idx, folder_idx >>
    /\ UNCHANGED << waitVars, envVars, pureVars >>

\* set_gui_address up to its PUT: the GET of /rest/config, awaited with `?`.
SetGuiAddressRead ==
    /\ pc = "idle"
    /\ NextCall <= MaxCalls
    /\ \E new_address \in { "0.0.0.0:8384", "127.0.0.1:8384" },
          resp \in { Ok(Unwrap(daemon_config)), Failed("Http"), Failed("Syncthing") } :
        /\ requests' = Append(requests,
                              Sent(NextCall, "GET", "/rest/config", resp, daemon_config))
        /\ arg' = Some([new_address |-> new_address])
        /\ IF resp.ok
           THEN /\ config' = Some(insert_gui_address(Unwrap(resp.body), new_address))
                /\ pc' = "put"
                /\ result' = None
           ELSE /\ config' = None
                /\ pc' = "idle"
                /\ result' = Some(Err(resp))
    /\ UNCHANGED << status_value, latest_changes, connections, folder_summaries,
                    peer_progress, folders, pair_idx, folder_idx, ret >>
    /\ UNCHANGED << waitVars, envVars >>

\* set_gui_address from its PUT to its return. The daemon replaces its document by
\* the one sent when the request reaches it; a transport error can come after that.
SetGuiAddressWrite ==
    /\ pc = "put"
    /\ \E resp \in { Ok(<< >>), Failed("Http"), Failed("Syncthing") }, reached \in BOOLEAN :
        /\ resp.ok => reached
        /\ resp.error = Some("Syncthing") => ~reached
        /\ daemon_config' = IF reached THEN config ELSE daemon_config
        /\ requests' = Append(requests,
                              Sent(requests[Len(requests)].call, "PUT", "/rest/config", resp,
                                   IF reached THEN config ELSE daemon_config))
        /\ result' = IF resp.ok THEN Some([ok |-> TRUE]) ELSE Some(Err(resp))
    /\ pc' = "idle"
    /\ UNCHANGED << status_value, config, latest_changes, connections, folder_summaries,
                    peer_progress, folders, pair_idx, folder_idx >>
    /\ UNCHANGED << waitVars, base_urls, other, pureVars >>

\* Another writer of the daemon's configuration (its own GUI, another client):
\* it adds a folder and, when there is a gui object, changes its user.
OtherWriter ==
    /\ IsSome(daemon_config)
    /\ Unwrap(Get(Unwrap(daemon_config), "folders")).n < MaxWrites
    /\ LET doc == Unwrap(daemon_config)
           bumped == JObj(MapPut(doc.o, "folders", JNum(doc.o["folders"].n + 1)))
       IN  daemon_config' =
               Some(IF IsSome(Get(doc, "gui")) /\ Unwrap(Get(doc, "gui")).t = "obj"
                    THEN JObj(MapPut(bumped.o, "gui",
                                     JObj(MapPut(doc.o["gui"].o, "user", JStr("u2")))))
                    ELSE bumped)
    /\ UNCHANGED << pc, cycleVars, requests, waitVars, base_urls, other, pureVars >>

GuiNext ==
    \/ GetGuiAddress
    \/ SetGuiAddressRead
    \/ SetGuiAddressWrite
    \/ OtherWriter

SpecGui == GuiInit /\ [][GuiNext]_vars

\* ------------------------------------------- models/peer.rs: PeerProgress

\* The most completion answers recorded for one peer.
MaxSamples == 3

\* The answers to /rest/db/completion recorded for one peer: a completion absent,
\* below 0, within range, at 100 and above 100, with need bytes absent, 0 and
\* above 0.
SampleDocs ==
    { [completion |-> None, need_bytes |-> Some(1)],
      [completion |-> Some(Rat(100, 1)), need_bytes |-> Some(0)],
      [completion |-> Some(Rat(100, 1)), need_bytes |-> Some(1)],
      [completion |-> Some(Rat(100, 1)), need_bytes |-> None],
      [completion |-> Some(Rat(9999, 100)), need_bytes |-> Some(0)],
      [completion |-> Some(Rat(0 - 1, 1)), need_bytes |-> Some(0)],
      [completion |-> Some(Rat(150, 1)), need_bytes |-> Some(0)],
      [completion |-> Some(Rat(50, 1)), need_bytes |-> Some(U64Max)] }

\* A fresh PeerProgress, as collect_peer_metrics inserts it.
PeerInit ==
    /\ pc = "peer"
    /\ arg = Some(PeerProgress_default)
    /\ ret = None
    /\ CycleIdle
    /\ WaitIdle

\* progress.record(folder, &remote_completion)
RecordSample ==
    /\ pc = "peer"
    /\ Len(Unwrap(arg).folders) < MaxSamples
    /\ \E completion \in SampleDocs :
        arg' = Some(record(Unwrap(arg), FolderTable[1], completion))
    /\ ret' = None
    /\ UNCHANGED << pc, cycleVars, requests, waitVars, envVars >>

\* progress.avg_completion()
AvgCompletion ==
    /\ pc = "peer"
    /\ ret' = Some([fn |-> "avg_completion", value |-> avg_completion(Unwrap(arg))])
    /\ UNCHANGED << pc, arg, cycleVars, requests, waitVars, envVars >>

\* progress.outstanding_need()
OutstandingNeed ==
    /\ pc = "peer"
    /\ ret' = Some([fn |-> "outstanding_need", value |-> outstanding_need(Unwrap(arg))])
    /\ UNCHANGED << pc, arg, cycleVars, requests, waitVars, envVars >>

PeerNext ==
    \/ RecordSample
    \/ AvgCompletion
    \/ OutstandingNeed

SpecPeer == PeerInit /\ [][PeerNext]_vars

\* ------------------------------------------------------------ the claims

ReturnedOk == pc = "done" /\ IsSome(result) /\ Unwrap(result).ok
ReturnedErr == pc = "done" /\ IsSome(result) /\ ~Unwrap(result).ok
\* The exchanges of the cycle with a path among `paths` that failed.
FailedCalls(paths) ==
    { i \in 1..Len(requests) : ~requests[i].ok /\ requests[i].path \in paths }
DocumentedMandatory == { "/rest/system/status", "/rest/config", "/rest/db/status" }
AwaitedWithTry == DocumentedMandatory \cup { "/rest/events" }
\* The device of the configuration a peer payload was built from.
DeviceOf(peer) ==
    CHOOSE d \in { Unwrap(config).devices[i] : i \in 1..Len(Unwrap(config).devices) } :
        d.device_id = peer.id
PeersOf(r) == { r.peers[i] : i \in 1..Len(r.peers) }

\* C1 as claimed: a finished compose_payload returned an error exactly when the
\* system-status call, the daemon-config call or some per-folder status call
\* failed, whatever became of the recent-events fetch, the connections call and
\* the completion queries.
C1_AsClaimed ==
    pc = "done" => (ReturnedErr <=> FailedCalls(DocumentedMandatory) # {})

\* C1, amended: a finished compose_payload returned an error exactly when the
\* system-status call, the daemon-config call, the recent-events fetch or some
\* per-folder status call failed, and a payload otherwise, whatever became of the
\* connections call and the completion queries.
C1_ErrorOnlyFromAwaitedWithTry ==
    pc = "done" =>
        /\ ReturnedErr <=> FailedCalls(AwaitedWithTry) # {}
        /\ ReturnedOk <=> FailedCalls(AwaitedWithTry) = {}

C1_Witness ==
    /\ ReturnedOk
    /\ FailedCalls({ "/rest/system/connections" }) # {}
    /\ FailedCalls({ "/rest/db/completion" }) # {}
    /\ Len(Unwrap(result).folders) = 2

\* C2: once the system-status call, the daemon-config call or a per-folder status
\* call has failed, that exchange is the last of the cycle (no request follows it),
\* it was made once (no retry), and compose_payload has returned an error that
\* carries nothing else: no overview, no folder list, no peer list.
C2_MandatoryFailureAborts ==
    \A i \in FailedCalls(DocumentedMandatory) :
        /\ i = Len(requests)
        /\ \A j \in 1..Len(requests) :
               (/\ requests[j].path = requests[i].path
                /\ requests[j].folder = requests[i].folder) => j = i
        /\ ReturnedErr
        /\ DOMAIN Unwrap(result) = { "ok", "error" }

C2_Witness ==
    /\ ReturnedErr
    /\ requests[Len(requests)].path = "/rest/db/status"
    /\ Len(folders) = 1
    /\ peer_progress # EmptyMap

\* C3: when the connections call failed, that failure is no reason for an error
\* (compose_payload returned one only if a call awaited with `?` failed), and in
\* the payload returned every peer has connected = false, no address, no client
\* version, no last-seen, and paused equal to its device's own paused flag, while
\* the overview is the one of the status document and every folder payload is the
\* one its configuration, status response, latest change and peer-need summary
\* give: nothing in them comes from the connections call.
C3_ConnectionsFailureDegrades ==
    (pc = "done" /\ FailedCalls({ "/rest/system/connections" }) # {}) =>
        /\ ReturnedErr => FailedCalls(AwaitedWithTry) # {}
        /\ ReturnedOk =>
            LET r == Unwrap(result)
                cfg == Unwrap(config)
                status_of(f) ==
                    CHOOSE x \in { requests[i] : i \in 1..Len(requests) } :
                        x.path = "/rest/db/status" /\ x.folder = Some(f.id)
            IN  /\ \A p \in PeersOf(r) :
                       /\ ~p.connected
                       /\ p.address = None
                       /\ p.client_version = None
                       /\ p.last_seen = None
                       /\ p.paused = UnwrapOr(DeviceOf(p).paused, FALSE)
                /\ r.overview = SyncthingOverview_from_value(Unwrap(requests[1].body))
                /\ Len(r.folders) = Len(cfg.folders)
                /\ \A k \in 1..Len(cfg.folders) :
                       r.folders[k] =
                           FolderPayload_from_parts(
                               cfg.folders[k],
                               Unwrap(status_of(cfg.folders[k]).body),
                               IF cfg.folders[k].id \in DOMAIN latest_changes
                               THEN << latest_changes[cfg.folders[k].id] >> ELSE << >>,
                               MapGet(folder_summaries, cfg.folders[k].id))

C3_Witness ==
    /\ ReturnedOk
    /\ FailedCalls({ "/rest/system/connections" }) # {}
    /\ Len(Unwrap(result).peers) = 2
    /\ \E p \in PeersOf(Unwrap(result)) : p.paused
    /\ \E p \in PeersOf(Unwrap(result)) : ~p.paused
    /\ Len(Unwrap(result).folders) = 2
    /\ Unwrap(result).folders[1].last_changes # << >>

\* The successful completion answers of the cycle so far for a device, or for a
\* folder, in the order they came.
CompletionAnswers ==
    SelectSeq(requests, LAMBDA x : x.path = "/rest/db/completion" /\ x.ok)
RECURSIVE SumNeed(_)
SumNeed(xs) ==
    IF xs = << >> THEN 0
    ELSE SumNeed(Tail(xs)) + UnwrapOr(Unwrap(Head(xs).body).need_bytes, 0)
CountOf(xs, keep(_)) == Len(SelectSeq(xs, keep))

\* C4: a failed completion query is no reason for an error, and the pair it asked
\* about adds nothing: a device's accumulated progress holds one breakdown entry
\* per successful answer about it, in order, and none for a failed pair; its
\* need-bytes sum and its completion sum and count are those of its successful
\* answers; a folder's peer-need summary counts the successful answers about it
\* with need bytes above 0 and sums their need. The payload returned reports
\* exactly these.
C4_FailedCompletionOmitted ==
    LET answers == CompletionAnswers
        about(d) == SelectSeq(answers, LAMBDA x : x.device = Some(d))
        devices == { Unwrap(answers[i].device) : i \in 1..Len(answers) }
        needy(f) ==
            SelectSeq(answers,
                      LAMBDA x : x.folder = Some(f)
                                 /\ UnwrapOr(Unwrap(x.body).need_bytes, 0) > 0)
        needy_folders == { f \in { "f1", "f2", "f3" } : needy(f) # << >> }
    IN  /\ (ReturnedErr /\ FailedCalls({ "/rest/db/completion" }) # {})
               => FailedCalls(AwaitedWithTry) # {}
        /\ DOMAIN peer_progress = devices
        /\ \A d \in devices :
               LET p == peer_progress[d]
                   xs == about(d)
               IN  /\ Len(p.folders) = Len(xs)
                   /\ \A k \in 1..Len(xs) :
                          /\ Some(p.folders[k].folder_id) = xs[k].folder
                          /\ p.folders[k].need_bytes = Unwrap(xs[k].body).need_bytes
                          /\ p.folders[k].completion = Unwrap(xs[k].body).completion
                   /\ p.total_need_bytes = SumNeed(xs)
                   /\ p.completion_samples =
                          CountOf(xs, LAMBDA x : IsSome(Unwrap(x.body).completion))
        /\ \A i \in FailedCalls({ "/rest/db/completion" }) :
               \A d \in devices :
                   requests[i].device = Some(d) =>
                       \A k \in 1..Len(peer_progress[d].folders) :
                           Some(peer_progress[d].folders[k].folder_id) # requests[i].folder
        /\ DOMAIN folder_summaries = needy_folders
        /\ \A f \in needy_folders :
               /\ folder_summaries[f].peer_count = Len(needy(f))
               /\ folder_summaries[f].need_bytes = SumNeed(needy(f))
        /\ ReturnedOk =>
               /\ \A p \in PeersOf(Unwrap(result)) :
                      /\ p.folders = IF p.id \in devices
                                     THEN peer_progress[p.id].folders ELSE << >>
                      /\ p.need_bytes =
                             IF p.id \in devices /\ peer_progress[p.id].total_need_bytes > 0
                             THEN Some(peer_progress[p.id].total_need_bytes) ELSE None
                      /\ p.completion =
                             IF p.id \in devices
                             THEN avg_completion(peer_progress[p.id]) ELSE None
               /\ \A k \in 1..Len(Unwrap(result).folders) :
                      Unwrap(result).folders[k].peers_need_summary =
                          MapGet(folder_summaries, Unwrap(result).folders[k].id)

C4_Witness ==
    /\ ReturnedOk
    /\ \E i \in FailedCalls({ "/rest/db/completion" }) :
           requests[i].folder = Some("f1") /\ requests[i].device = Some(dA)
    /\ \E p \in PeersOf(Unwrap(result)) :
           /\ p.id = dA
           /\ p.need_bytes = Some(3)
           /\ Len(p.folders) = 1
           /\ p.folders[1].folder_id = "f2"
    /\ \E p \in PeersOf(Unwrap(result)) : p.id = dB /\ p.need_bytes = Some(3)
    /\ Unwrap(result).folders[2].peers_need_summary
           = Some([peer_count |-> 2, need_bytes |-> 6])

\* C5: in every payload returned the peers stand in ascending order of their
\* lower-cased names, a peer's name being its device's name, or its device id
\* when it has none, and no peer has the local daemon's id.
C5_PeersSortedWithoutLocal ==
    ReturnedOk =>
        LET r == Unwrap(result)
        IN  /\ \A i, j \in 1..Len(r.peers) :
                   i < j => StrLeq(to_lowercase(r.peers[i].name),
                                   to_lowercase(r.peers[j].name))
            /\ \A p \in PeersOf(r) :
                   /\ p.name = UnwrapOr(DeviceOf(p).name, p.id)
                   /\ r.overview.my_id # Some(p.id)

C5_Witness ==
    /\ ReturnedOk
    /\ Len(Unwrap(config).devices) = 2
    /\ Len(Unwrap(result).peers) = 2
    /\ Unwrap(config).devices[1].device_id = dB
    /\ Unwrap(config).devices[2].device_id = dA
    /\ Unwrap(result).peers[1].id = dA
    /\ Unwrap(result).peers[2].id = dB
    /\ Unwrap(result).overview.my_id = Some(dL)

\* The file events of a list whose payload names folder f, by position.
FileEventsNaming(events, f) ==
    { i \in 1..Len(events) :
        is_file_event(events[i].event_type) /\ folder_id(events[i]) = Some(f) }
MaxId(events, idxs) ==
    CHOOSE m \in { events[i].id : i \in idxs } : \A i \in idxs : events[i].id <= m

\* C6 as claimed: for every configured folder the change latest_folder_changes
\* retains comes from the file event with the greatest id among those whose
\* payload names that folder, whatever order the daemon returned the events in.
C6_AsClaimed ==
    (pc = "done" /\ IsSome(ret)) =>
        \A f \in EventsAllowed :
            f \in DOMAIN Unwrap(ret) =>
                Unwrap(ret)[f].from_id
                    = MaxId(Unwrap(arg).events, FileEventsNaming(Unwrap(arg).events, f))

\* C6, amended: for every configured folder the change latest_folder_changes
\* retains comes from the file event with the greatest id among those whose
\* payload names that folder and carries a file name (item, file, or a path in
\* items or files), whatever order the daemon returned the events in; a folder
\* with no such event has no retained change, and no other folder has one.
C6_LatestNamedFileEventWins ==
    (pc = "done" /\ IsSome(ret)) =>
        LET events == Unwrap(arg).events
            named(f) == { i \in FileEventsNaming(events, f) : IsSome(file_name(events[i])) }
        IN  /\ DOMAIN Unwrap(ret) \subseteq EventsAllowed
            /\ \A f \in EventsAllowed :
                   IF named(f) = {}
                   THEN f \notin DOMAIN Unwrap(ret)
                   ELSE /\ f \in DOMAIN Unwrap(ret)
                        /\ Unwrap(ret)[f].from_id = MaxId(events, named(f))
                        /\ \E i \in named(f) :
                               /\ events[i].id = Unwrap(ret)[f].from_id
                               /\ Some(Unwrap(ret)[f].name) = file_name(events[i])

C6_Witness ==
    /\ pc = "done"
    /\ IsSome(ret)
    /\ Len(Unwrap(arg).events) = 3
    /\ Unwrap(arg).events[1].id = 40
    /\ Unwrap(arg).events[2].id = 50
    /\ Unwrap(arg).events[3].id = 30
    /\ \A i \in 1..3 : Unwrap(arg).events[i].event_type = "ItemFinished"
    /\ Unwrap(ret)["f1"].from_id = 50

\* C7: when the long poll was answered successfully, wait_for_updates returns
\* last_event_id = the greatest of since_id and the ids of the events returned
\* (since_id itself when none was returned) and has_updates = true exactly when
\* at least one event was returned.
C7_WaitResultOfSuccess ==
    (pc = "returned" /\ requests[1].ok) =>
        LET events == Unwrap(requests[1].body)
            ids == { events[i].id : i \in 1..Len(events) } \cup { since }
        IN  /\ IsSome(wait_result)
            /\ Unwrap(wait_result).ok
            /\ Unwrap(wait_result).last_event_id \in ids
            /\ \A id \in ids : id <= Unwrap(wait_result).last_event_id
            /\ events = << >> => Unwrap(wait_result).last_event_id = since
            /\ Unwrap(wait_result).has_updates <=> Len(events) >= 1

C7_Witness ==
    /\ pc = "returned"
    /\ requests[1].ok
    /\ Len(Unwrap(requests[1].body)) = 2
    /\ \A i \in 1..2 : Unwrap(requests[1].body)[i].id < since
    /\ Unwrap(wait_result).last_event_id = since
    /\ Unwrap(wait_result).has_updates

\* One step of a wait_for_updates call and of its caller, as C8 has it.
C8_Step ==
    /\ current_idx' = current_idx
    /\ (pc = "wait" /\ pc' = "cancelled") => wait_result' = None
    /\ (pc = "wait" /\ pc' = "returned" /\ ~requests'[1].ok) =>
           /\ IsSome(wait_result')
           /\ ~Unwrap(wait_result').ok
           /\ DOMAIN Unwrap(wait_result') = { "ok", "error" }
    /\ cursor' # cursor => (pc = "returned" /\ requests[1].ok)
    /\ (pc' = "cancelled" \/ (pc' = "returned" /\ ~requests'[1].ok)) => cursor' = since'
    /\ (pc = "cancelled" \/ (pc = "returned" /\ ~requests[1].ok)) => cursor' = since

\* C8: a wait_for_updates call that fails, or is cancelled before its response
\* arrives, yields no EventWaitResult (an error, or nothing) and leaves the
\* client's state (the index of its current base URL) as it was; the caller's
\* event cursor changes only when it resumes after a successful response, and
\* after a failed or cancelled call it still equals since_id.
C8_FailureLeavesCursor == [][C8_Step]_vars

C8_Witness ==
    /\ pc = "idle"
    /\ cursor > 0
    /\ since = cursor
    /\ Len(requests) = 1
    /\ ~requests[1].ok
    /\ IsSome(wait_result)
    /\ ~Unwrap(wait_result).ok

\* C9: humanize_folder_state follows the first-match-wins table for every
\* (paused, state, need_bytes): paused gives Paused whatever the rest; otherwise a
\* state containing, in lower case, "waiting" and "scan" gives WaitingToScan, else
\* "waiting" and "sync" WaitingToSync, else "preparing" and "sync"
\* PreparingToSync, else a state equal ignoring case to "scanning", "syncing",
\* "idle", "error" gives Scanning, Syncing, (UpToDate when need_bytes is 0 or
\* absent, else PendingChanges), Error; any other or absent state gives UpToDate
\* when need_bytes is 0 or absent, else Unknown.
C9_ClassifierTable ==
    (pc = "done" /\ IsSome(ret)) =>
        LET a == Unwrap(arg)
            present == IsSome(a.state)
            lower == to_ascii_lowercase(UnwrapOr(a.state, << >>))
            has(w) == present /\ Contains(lower, w)
            is(w) == present /\ lower = w
            row1 == has(sWaiting) /\ has(sScan)
            row2 == ~row1 /\ has(sWaiting) /\ has(sSync)
            row3 == ~row1 /\ ~row2 /\ has(sPreparing) /\ has(sSync)
            contains_row == row1 \/ row2 \/ row3
            exact_row == is(sScanning) \/ is(sSyncing) \/ is(sIdle) \/ is(sError)
            no_need == a.need_bytes = None \/ a.need_bytes = Some(0)
            code == Unwrap(ret).code
        IN  /\ a.paused => code = "Paused"
            /\ (~a.paused /\ row1) => code = "WaitingToScan"
            /\ (~a.paused /\ row2) => code = "WaitingToSync"
            /\ (~a.paused /\ row3) => code = "PreparingToSync"
            /\ (~a.paused /\ ~contains_row /\ is(sScanning)) => code = "Scanning"
            /\ (~a.paused /\ ~contains_row /\ is(sSyncing)) => code = "Syncing"
            /\ (~a.paused /\ ~contains_row /\ is(sIdle) /\ no_need) => code = "UpToDate"
            /\ (~a.paused /\ ~contains_row /\ is(sIdle) /\ ~no_need)
                   => code = "PendingChanges"
            /\ (~a.paused /\ ~contains_row /\ is(sError)) => code = "Error"
            /\ (~a.paused /\ ~contains_row /\ ~exact_row /\ no_need) => code = "UpToDate"
            /\ (~a.paused /\ ~contains_row /\ ~exact_row /\ ~no_need) => code = "Unknown"

C9_Witness ==
    /\ pc = "done"
    /\ IsSome(ret)
    /\ Unwrap(arg).paused
    /\ Unwrap(arg).state = Some(Shout(sScan \o Dash \o sWaiting))
    /\ Unwrap(arg).need_bytes = Some(1)
    /\ Unwrap(ret).code = "Paused"

\* C10 as claimed: for every global_bytes > 0 compute_completion lies in [0, 100]
\* and equals 100 exactly when need_bytes is absent or 0, a need at or above
\* global giving 0; for global_bytes 0 or absent the result is 0 whatever
\* need_bytes is.
C10_AsClaimed ==
    (pc = "done" /\ IsSome(ret)) =>
        LET global == Unwrap(arg).global_bytes
            need == Unwrap(arg).need_bytes
            completion == Unwrap(ret)
        IN  IF IsSome(global) /\ Unwrap(global) > 0
            THEN /\ FLeq(F0, completion)
                 /\ FLeq(completion, F100)
                 /\ completion = F100 <=> (need = None \/ need = Some(0))
                 /\ (IsSome(need) /\ Unwrap(need) >= Unwrap(global)) => completion = F0
            ELSE completion = F0

\* The answers recorded so far for the peer of SpecPeer, from its breakdown.
Recorded == Unwrap(arg).folders
RECURSIVE NeedSum(_)
NeedSum(xs) ==
    IF xs = << >> THEN 0
    ELSE saturating_add(NeedSum(SubSeq(xs, 1, Len(xs) - 1)),
                        UnwrapOr(xs[Len(xs)].need_bytes, 0))
Returned(fn) == pc = "peer" /\ IsSome(ret) /\ Unwrap(ret).fn = fn

\* C11: after any sequence of recorded completion answers for a peer, when the
\* accumulated need-bytes sum is above 0 and at least one completion value was
\* recorded, avg_completion is at most 99.99, even when every recorded value is
\* 100; hence the peer payload built from that progress reports its outstanding need
\* bytes together with a completion of at most 99.99.
C11_AverageCappedWhileNeedOutstanding ==
    Returned("avg_completion") =>
        ((/\ NeedSum(Recorded) > 0
          /\ \E k \in 1..Len(Recorded) : IsSome(Recorded[k].completion))
            => /\ IsSome(Unwrap(ret).value)
               /\ ~RatLess(Rat(9999, 100), Unwrap(Unwrap(ret).value))
               /\ LET p == PeerPayloadOf([device_id |-> dA, name |-> None, paused |-> None],
                                         ConnectionsResponse_default, dA :> Unwrap(arg))
                  IN  /\ p.need_bytes = Some(NeedSum(Recorded))
                      /\ p.completion = Unwrap(ret).value)

C11_Witness ==
    /\ Returned("avg_completion")
    /\ Len(Recorded) = 2
    /\ \A k \in 1..2 : Recorded[k].completion = Some(Rat(100, 1))
    /\ Recorded[1].need_bytes = Some(1)
    /\ Recorded[2].need_bytes = Some(0)
    /\ Unwrap(ret).value = Some(Rat(9999, 100))

\* C12 as claimed: after any sequence of recorded completion answers, whatever
\* completion values the daemon reported, avg_completion, when present, lies in
\* the closed range [0, 100].
C12_AsClaimed ==
    (Returned("avg_completion") /\ IsSome(Unwrap(ret).value)) =>
        /\ ~RatLess(Unwrap(Unwrap(ret).value), Rat(0, 1))
        /\ ~RatLess(Rat(100, 1), Unwrap(Unwrap(ret).value))

\* C13: after any sequence of recorded completion answers, outstanding_need
\* returns none exactly when the accumulated need-bytes sum is 0, and otherwise
\* returns that sum.
C13_OutstandingNeedIsTheSum ==
    Returned("outstanding_need") =>
        /\ Unwrap(ret).value = None <=> NeedSum(Recorded) = 0
        /\ NeedSum(Recorded) # 0 => Unwrap(ret).value = Some(NeedSum(Recorded))

C13_Witness ==
    /\ Returned("outstanding_need")
    /\ Len(Recorded) = 3
    /\ Recorded[1].need_bytes = Some(0)
    /\ Recorded[2].need_bytes = None
    /\ Recorded[3].need_bytes = Some(1)
    /\ Unwrap(ret).value = Some(1)

\* Whether an API key can be resolved from the environment of a discovery: the
\* variable is set and not blank, or the file can be read and holds a start tag
\* with an end tag after it.
KeyResolvable(a) ==
    \/ IsSome(a.api_key_env) /\ \E i \in 1..Len(Unwrap(a.api_key_env)) :
                                    Unwrap(a.api_key_env)[i] # " "
    \/ /\ IsSome(a.config_xml)
       /\ \E i, j \in 1..Len(Unwrap(a.config_xml)) :
              i < j /\ Unwrap(a.config_xml)[i] = start_tag /\ Unwrap(a.config_xml)[j] = end_tag

\* C14 as claimed: discovery fails with the missing-credential error whenever no
\* API key can be resolved: the variable is unset or blank and config.xml yields no
\* key, its tag absent, its tag unterminated, or the file not readable.
C14_AsClaimed ==
    (pc = "done" /\ IsSome(ret) /\ ~KeyResolvable(Unwrap(arg))) =>
        /\ ~Unwrap(ret).ok
        /\ Unwrap(ret).error = "MissingApiKey"

\* C16: after a successful discovery the endpoint list is never empty, holds no URL
\* twice, and is in order: the override (trimmed, only when set and not blank)
\* first, then https://127.0.0.1:8384, then http://127.0.0.1:8384; an override
\* equal to one of the loopback URLs appears once, at the front. The index
\* selected is 0.
C16_EndpointsOrderedUnique ==
    (pc = "done" /\ IsSome(ret) /\ Unwrap(ret).ok) =>
        LET urls == Unwrap(ret).base_urls
            env == Unwrap(arg).api_url_env
            set == IsSome(env) /\ \E i \in 1..Len(Unwrap(env)) : Unwrap(env)[i] # " "
            override == trim(Unwrap(env))
        IN  /\ urls # << >>
            /\ \A i, j \in 1..Len(urls) : i # j => urls[i] # urls[j]
            /\ Unwrap(ret).current_idx = 0
            /\ ~set => urls = << HttpsLoopback, HttpLoopback >>
            /\ (set /\ override \notin { HttpsLoopback, HttpLoopback })
                   => urls = << override, HttpsLoopback, HttpLoopback >>
            /\ (set /\ override = HttpsLoopback) => urls = << HttpsLoopback, HttpLoopback >>
            /\ (set /\ override = HttpLoopback) => urls = << HttpLoopback, HttpsLoopback >>

C16_Witness ==
    /\ pc = "done"
    /\ IsSome(ret)
    /\ Unwrap(ret).ok
    /\ Unwrap(arg).api_url_env = Some(HttpLoopback \o << " " >>)
    /\ Unwrap(ret).base_urls = << HttpLoopback, HttpsLoopback >>

\* C18: an overview is marked available exactly when its error list is empty: the
\* overview built from a status response has available = true and no errors, and
\* the overview built for a failed cycle has available = false, exactly the one
\* error message given, and every other field absent.
C18_AvailableIffNoErrors ==
    (pc = "done" /\ IsSome(ret)) =>
        LET overview == Unwrap(ret)
        IN  /\ overview.available <=> overview.errors = << >>
            /\ Unwrap(arg).fn = "from_value" =>
                   overview.available /\ overview.errors = << >>
            /\ Unwrap(arg).fn = "error" =>
                   /\ ~overview.available
                   /\ overview.errors = << Unwrap(arg).message >>
                   /\ \A f \in DOMAIN overview \ { "available", "errors" } :
                          overview[f] = None

C18_Witness ==
    /\ pc = "done"
    /\ IsSome(ret)
    /\ Unwrap(arg).fn = "error"
    /\ Unwrap(arg).message = "/rest/config returned 403"
    /\ ~Unwrap(ret).available
    /\ Len(Unwrap(ret).errors) = 1

\* The rank of a daemon call in the sequence the spec documents, and in the
\* sequence compose_payload issues them.
DocumentedRank(path) ==
    CASE path = "/rest/system/status" -> 1
      [] path = "/rest/config" -> 2
      [] path = "/rest/events" -> 3
      [] path = "/rest/db/status" -> 4
      [] path = "/rest/db/completion" -> 5
      [] path = "/rest/system/connections" -> 6
IssuedRank(path) ==
    CASE path = "/rest/system/status" -> 1
      [] path = "/rest/config" -> 2
      [] path = "/rest/events" -> 3
      [] path = "/rest/system/connections" -> 4
      [] path = "/rest/db/completion" -> 5
      [] path = "/rest/db/status" -> 6

\* C20 as claimed: within one cycle the daemon calls are issued in the documented
\* sequence: status and config, the recent-events fetch, the per-folder status
\* calls, the completion queries, and the connections call last; no completion
\* query and no connections call is issued before every per-folder status call
\* has completed.
C20_AsClaimed ==
    \A i, j \in 1..Len(requests) :
        i < j => DocumentedRank(requests[i].path) <= DocumentedRank(requests[j].path)

\* C20, amended: within one cycle the daemon calls are issued in the sequence of
\* compose_payload: status, config, the recent-events fetch (when a folder is
\* configured), the connections call, the completion queries for every folder's
\* devices in configuration order (empty and local device ids passed over), and
\* the per-folder status calls in configuration order last; a cycle that returns
\* a payload has issued exactly these calls, each once.
C20_CallsInIssuedOrder ==
    /\ \A i, j \in 1..Len(requests) :
           i < j => IssuedRank(requests[i].path) <= IssuedRank(requests[j].path)
    /\ ReturnedOk =>
           LET fs == Unwrap(config).folders
               my_id == Unwrap(result).overview.my_id
               call(path, folder, device) ==
                   [path |-> path, folder |-> folder, device |-> device]
               completions ==
                   LET devs(f) == SelectSeq(fs[f].devices,
                                            LAMBDA d : d.device_id # << >>
                                                       /\ Some(d.device_id) # my_id)
                       from[f \in 1..(Len(fs) + 1)] ==
                           IF f > Len(fs) THEN << >>
                           ELSE [k \in 1..Len(devs(f)) |->
                                    call("/rest/db/completion", Some(fs[f].id),
                                         Some(devs(f)[k].device_id))] \o from[f + 1]
                   IN  from[1]
               expected ==
                   << call("/rest/system/status", None, None),
                      call("/rest/config", None, None) >>
                   \o (IF fs = << >> THEN << >>
                       ELSE << call("/rest/events", None, None) >>)
                   \o << call("/rest/system/connections", None, None) >>
                   \o completions
                   \o [f \in 1..Len(fs) |-> call("/rest/db/status", Some(fs[f].id), None)]
           IN  [i \in 1..Len(requests) |->
                   call(requests[i].path, requests[i].folder, requests[i].device)]
               = expected

C20_Witness ==
    /\ ReturnedOk
    /\ Len(requests) = 9
    /\ requests[4].path = "/rest/system/connections"
    /\ requests[5].path = "/rest/db/completion"
    /\ requests[5].folder = Some("f1") /\ requests[5].device = Some(dA)
    /\ requests[7].device = Some(dB)
    /\ requests[8].path = "/rest/db/status"
    /\ requests[9].folder = Some("f2")

\* C15 as claimed: set_gui_address changes nothing in the daemon's configuration
\* except gui.address: when its write has reached the daemon, every other field of
\* the daemon's document holds the value it held immediately before the write,
\* whatever another writer did between the read and the write.
C15_AsClaimed ==
    \A i \in 1..Len(requests) :
        requests[i].method = "PUT"
            => insert_gui_address(Unwrap(requests[i].after), "")
                   = insert_gui_address(Unwrap(requests[i].before), "")

\* What C17 says of every state: the selected index is the one fixed at discovery,
\* every request went to the base URL at that index, a call has issued one GET,
\* and set_gui_address one PUT after its GET succeeded, and a failed request is
\* the last of its call.
C17_State ==
    /\ current_idx = 0
    /\ \A i \in 1..Len(requests) :
           /\ requests[i].base = base_urls[1]
           /\ \A j \in 1..Len(requests) :
                  (/\ requests[j].call = requests[i].call
                   /\ requests[j].method = requests[i].method) => j = i
           /\ requests[i].method = "PUT" =>
                  /\ i > 1
                  /\ requests[i - 1].call = requests[i].call
                  /\ requests[i - 1].method = "GET"
                  /\ requests[i - 1].ok
           /\ ~requests[i].ok =>
                  \A j \in (i + 1)..Len(requests) : requests[j].call # requests[i].call

\* What C17 says of every step: neither the selected index nor the endpoint list
\* changes, and the requests already issued stay as they are, at most one being
\* added.
C17_Step ==
    /\ current_idx' = current_idx
    /\ base_urls' = base_urls
    /\ Len(requests') \in { Len(requests), Len(requests) + 1 }
    /\ SubSeq(requests', 1, Len(requests)) = requests

\* C17: every transport call (a GET, the PUT of set_gui_address) issues exactly one
\* HTTP request, addressed to the base URL at the index fixed at discovery; after
\* any sequence of operations, failed ones included, the selected index is
\* unchanged, no request has been repeated, and no other candidate base URL has
\* been contacted.
C17_OneRequestToTheSelectedBase == []C17_State /\ [][C17_Step]_vars

C17_Witness ==
    /\ pc = "idle"
    /\ Len(base_urls) = 3
    /\ Len(requests) = 3
    /\ ~requests[1].ok
    /\ requests[2].call = 2 /\ requests[2].ok
    /\ requests[3].method = "PUT" /\ ~requests[3].ok
    /\ \A i \in 1..3 : requests[i].base = << "http://nas:8384" >>
    /\ current_idx = 0

\* The two maps collect_peer_metrics builds, run alone, on the completion answers
\* of a log, taken in order: a fold of the successful ones.
RECURSIVE AloneMetrics(_, _, _)
AloneMetrics(log, cfg, acc) ==
    IF log = << >> THEN acc
    ELSE LET x == Head(log)
             folder == CHOOSE f \in { cfg.folders[k] : k \in 1..Len(cfg.folders) } :
                           Some(f.id) = x.folder
         IN  AloneMetrics(
                 Tail(log), cfg,
                 IF x.path = "/rest/db/completion" /\ x.ok
                 THEN [ summaries |->
                            count_folder_summary(acc.summaries, folder, Unwrap(x.body)),
                        progress |->
                            count_peer_progress(acc.progress, folder, Unwrap(x.device),
                                                Unwrap(x.body)) ]
                 ELSE acc)

\* What compose_payload returns, run alone with the clock at `now`, on the answers
\* a log records: the error of the first failed call awaited with `?`, or the
\* payload built from the answers.
Alone(log, now) ==
    LET broken == { i \in 1..Len(log) : ~log[i].ok /\ log[i].path \in AwaitedWithTry }
        answers(path) == SelectSeq(log, LAMBDA x : x.path = path)
    IN  IF broken # {} THEN Err(Failed("Http"))
        ELSE LET overview == SyncthingOverview_from_value(Unwrap(log[1].body))
                 cfg == Unwrap(log[2].body)
                 ids == { cfg.folders[k].id : k \in 1..Len(cfg.folders) }
                 latest == IF answers("/rest/events") = << >> THEN EmptyMap
                           ELSE latest_folder_changes(
                                    Unwrap(answers("/rest/events")[1].body), ids, now)
                 connection == answers("/rest/system/connections")[1]
                 conns == IF connection.ok THEN Unwrap(connection.body)
                          ELSE ConnectionsResponse_default
                 acc == AloneMetrics(log, cfg, [summaries |-> EmptyMap, progress |-> EmptyMap])
                 status_of(f) ==
                     CHOOSE x \in { log[i] : i \in 1..Len(log) } :
                         x.path = "/rest/db/status" /\ x.folder = Some(f.id)
             IN  [ ok |-> TRUE,
                   overview |-> overview,
                   folders |->
                       [ k \in 1..Len(cfg.folders) |->
                           FolderPayload_from_parts(
                               cfg.folders[k], Unwrap(status_of(cfg.folders[k]).body),
                               IF cfg.folders[k].id \in DOMAIN latest
                               THEN << latest[cfg.folders[k].id] >> ELSE << >>,
                               MapGet(acc.summaries, cfg.folders[k].id)) ],
                   peers |-> compose_peers(cfg.devices, overview.my_id, acc.progress,
                                           conns) ]

\* A call that has returned returned what it returns alone on its own answers.
ReturnsAsAlone(frame) ==
    frame.pc = "done" =>
        \E now \in Clock : frame.result = Some(Alone(frame.requests, now))

C19_State ==
    /\ ReturnsAsAlone(Frame)
    /\ IsSome(other) => ReturnsAsAlone(Unwrap(other))

\* A step of the running call leaves the suspended call's frame as it was, and a
\* switch only exchanges the two frames.
C19_Step ==
    \/ other' = other
    \/ other' = Some(Frame) /\ Frame' = Unwrap(other)

\* C19: of two aggregation cycles running at once, each with its own client and
\* its own accumulators, each returns, for every interleaving of their steps,
\* exactly the payload (or error) it returns alone on the responses it received,
\* and no step of one changes what the other holds.
C19_ConcurrentCyclesIndependent == []C19_State /\ [][C19_Step]_vars

C19_Witness ==
    /\ ReturnedOk
    /\ \E p \in PeersOf(Unwrap(result)) : p.id = dA /\ p.need_bytes = Some(3)
    /\ IsSome(other)
    /\ Unwrap(other).pc = "folder_status"
    /\ dA \in DOMAIN Unwrap(other).peer_progress
    /\ Unwrap(other).peer_progress[dA].total_need_bytes = 0
    /\ Unwrap(other).folder_summaries = EmptyMap

\* C21 as claimed: a wait_for_updates call whose clamped timeout exceeds the
\* client's 8 s request timeout, held open by the daemon for that clamped timeout
\* and then answered with an empty event list, has returned successfully with
\* has_updates false and last_event_id equal to since.
C21_AsClaimed ==
    (/\ pc = "returned"
     /\ requests[1].timeout > client_timeout_secs
     /\ requests[1].held = requests[1].timeout
     /\ requests[1].answer = Some(<< >>)) =>
        /\ IsSome(wait_result)
        /\ Unwrap(wait_result).ok
        /\ ~Unwrap(wait_result).has_updates
        /\ Unwrap(wait_result).last_event_id = since

\* C22 as claimed: whenever set_gui_address(a) has returned success, the document
\* it wrote to the daemon has gui.address = a, whatever document the preceding read
\* returned (one without a gui object included).
C22_AsClaimed ==
    (/\ pc = "idle"
     /\ requests # << >>
     /\ requests[Len(requests)].method = "PUT"
     /\ requests[Len(requests)].ok) =>
        LET written == Unwrap(config)
            gui == Get(written, "gui")
        IN  /\ result = Some([ok |-> TRUE])
            /\ IsSome(gui)
            /\ Unwrap(gui).t = "obj"
            /\ AsStr(Get(Unwrap(gui), "address")) = Some(Unwrap(arg).new_address)

\* The first of the keys, in order, under which a value holds a string, and the
\* first entry of an array that has such a key.
RECURSIVE FirstString(_, _)
FirstString(v, keys) ==
    IF keys = << >> THEN None
    ELSE IF IsSome(AsStr(Get(v, Head(keys)))) THEN AsStr(Get(v, Head(keys)))
    ELSE FirstString(v, Tail(keys))
RECURSIVE FirstEntryString(_, _)
FirstEntryString(entries, keys) ==
    IF entries = << >> THEN None
    ELSE IF IsSome(FirstString(Head(entries), keys)) THEN FirstString(Head(entries), keys)
    ELSE FirstEntryString(Tail(entries), keys)
InArray(d, key, keys) ==
    IF IsSome(AsArray(Get(d, key)))
    THEN FirstEntryString(Unwrap(AsArray(Get(d, key))), keys) ELSE None

\* C23 as claimed: each extractor has returned the value of the first candidate of
\* its priority list that holds a string, and none only when no candidate holds
\* one: origin from device, peerID, id; file name from item, file, then the first
\* entry of items, then of files, offering path, item or file; action from action,
\* then the first entry of items offering action.
C23_AsClaimed ==
    (pc = "done" /\ IsSome(ret) /\ "origin" \in DOMAIN Unwrap(ret)) =>
        LET d == Unwrap(arg).data
            r == Unwrap(ret)
            entry_keys == << "path", "item", "file" >>
        IN  /\ r.origin = FirstString(d, << "device", "peerID", "id" >>)
            /\ r.file_name =
                   OrElse(FirstString(d, << "item", "file" >>),
                          OrElse(InArray(d, "items", entry_keys),
                                 InArray(d, "files", entry_keys)))
            /\ r.action = OrElse(FirstString(d, << "action" >>),
                                 InArray(d, "items", << "action" >>))

\* C24 as claimed: the peer lists composed from two device lists that hold the
\* same devices in different orders (every other response being the same) are
\* identical, also when two devices have names equal ignoring case.
C24_AsClaimed ==
    (pc = "done" /\ IsSome(ret) /\ "peers_reordered" \in DOMAIN Unwrap(ret)) =>
        Unwrap(ret).peers = Unwrap(ret).peers_reordered

\* C25 as claimed: in every payload compose_payload has returned no two folder
\* payloads have the same id and no two peer payloads have the same id, whatever
\* folder and device lists the configuration answered holds.
C25_AsClaimed ==
    ReturnedOk =>
        LET r == Unwrap(result)
        IN  /\ \A i, j \in 1..Len(r.folders) : r.folders[i].id = r.folders[j].id => i = j
            /\ \A i, j \in 1..Len(r.peers) : r.peers[i].id = r.peers[j].id => i = j

\* The need values of the answers counted so far about the device, in order (0 for
\* an answer without one), their sum, and the lesser of two numbers.
NeedsCounted ==
    LET p == UnwrapOr(MapGet(peer_progress, dA), PeerProgress_default)
    IN  [i \in 1..Len(p.folders) |-> UnwrapOr(p.folders[i].need_bytes, 0)]
RECURSIVE SumOf(_)
SumOf(xs) == IF xs = << >> THEN 0 ELSE Head(xs) + SumOf(Tail(xs))
Least(a, b) == IF a < b THEN a ELSE b

\* C26: need-bytes accumulation never wraps around: after any sequence of answers
\* recorded, the peer's need-bytes sum is the lesser of the sum of the need values
\* recorded and the greatest u64, and the folder's peer-need summary (kept once an
\* answer has need above 0) holds the lesser of that sum and the greatest u64 as
\* need bytes and the lesser of the number of answers with need above 0 and the
\* greatest u32 as peer count.
C26_AccumulationSaturates ==
    pc = "metrics" =>
        LET sum == SumOf(NeedsCounted)
            needy == Len(SelectSeq(NeedsCounted, LAMBDA n : n > 0))
            p == UnwrapOr(MapGet(peer_progress, dA), PeerProgress_default)
        IN  /\ p.total_need_bytes = Least(sum, U64Max)
            /\ IsSome(MapGet(folder_summaries, "f1")) <=> needy > 0
            /\ needy > 0 =>
                   /\ folder_summaries["f1"].need_bytes = Least(sum, U64Max)
                   /\ folder_summaries["f1"].peer_count = Least(needy, U32Max)

C26_Witness ==
    /\ pc = "metrics"
    /\ SumOf(NeedsCounted) > U64Max
    /\ Len(SelectSeq(NeedsCounted, LAMBDA n : n > 0)) > U32Max
    /\ peer_progress[dA].total_need_bytes = U64Max
    /\ folder_summaries["f1"] = [peer_count |-> U32Max, need_bytes |-> U64Max]

\* C27: a wait_for_updates call has issued exactly one query, to /rest/events,
\* carrying since = since_id, limit = 1 and as timeout the requested timeout in
\* whole seconds brought into 1..300: below 1 s it is 1, above 300 s it is 300.
C27_OneClampedQuery ==
    pc \in { "wait", "returned", "cancelled" } =>
        /\ Len(requests) = 1
        /\ requests[1].path = "/rest/events"
        /\ requests[1].since = since
        /\ requests[1].limit = 1
        /\ LET secs == requests[1].asked \div 1000
           IN  requests[1].timeout =
                   IF secs < 1 THEN 1 ELSE IF secs > 300 THEN 300 ELSE secs

C27_Witness ==
    /\ pc = "returned"
    /\ requests[1].asked = 301000
    /\ requests[1].timeout = 300
    /\ requests[1].since > 0
    /\ requests[1].ok

\* One step of a caller that passes its cursor as since_id and takes each
\* last_event_id returned as its new cursor, as C28 has it.
C28_Step ==
    /\ cursor' >= cursor
    /\ (pc = "wait" /\ pc' = "returned" /\ requests'[1].ok) =>
           Unwrap(wait_result').last_event_id >= since
    /\ (/\ pc = "returned"
        /\ requests[1].ok
        /\ \A i \in 1..Len(Unwrap(requests[1].body)) :
               Unwrap(requests[1].body)[i].id <= since) => cursor' = cursor

\* C28: over any sequence of wait_for_updates calls in which the caller passes each
\* last_event_id returned as the next since_id, the cursor never decreases,
\* whatever event ids the daemon returns, and a call whose response holds no event
\* with an id above since_id leaves it unchanged.
C28_CursorNeverDecreases == [][C28_Step]_vars

C28_Witness ==
    /\ pc = "idle"
    /\ cursor = 40
    /\ since = 40
    /\ Len(requests) = 1
    /\ requests[1].ok
    /\ Len(Unwrap(requests[1].body)) = 2
    /\ Unwrap(requests[1].body)[1].id = 40
    /\ Unwrap(requests[1].body)[2].id = 30

\* C29: in every folder payload the state code agrees with the other fields: the
\* code is Paused exactly when the paused flag is true; the code UpToDate comes
\* only with the folder not paused and need bytes absent or 0; the codes
\* PendingChanges and Unknown come only with need bytes above 0.
C29_StateCodeConsistent ==
    (pc = "done" /\ IsSome(ret) /\ "state_code" \in DOMAIN Unwrap(ret)) =>
        LET payload == Unwrap(ret)
        IN  /\ payload.state_code = "Paused" <=> payload.paused
            /\ payload.state_code = "UpToDate" =>
                   /\ ~payload.paused
                   /\ payload.need_bytes \in { None, Some(0) }
            /\ payload.state_code \in { "PendingChanges", "Unknown" } =>
                   /\ IsSome(payload.need_bytes)
                   /\ Unwrap(payload.need_bytes) > 0

C29_Witness ==
    /\ pc = "done"
    /\ IsSome(ret)
    /\ "state_code" \in DOMAIN Unwrap(ret)
    /\ Unwrap(ret).state_code = "Unknown"
    /\ Unwrap(ret).state_raw = Some(sCleaning)
    /\ Unwrap(ret).need_bytes = Some(1)
    /\ ~Unwrap(ret).paused
    /\ Unwrap(arg).folder.paused = Some(FALSE)

\* The successful completion answers of the cycle about a folder that report need
\* bytes above 0, in the order they came.
NeedyAnswers(f) ==
    SelectSeq(requests,
              LAMBDA x : /\ x.path = "/rest/db/completion"
                         /\ x.ok
                         /\ x.folder = Some(f)
                         /\ UnwrapOr(Unwrap(x.body).need_bytes, 0) > 0)

\* C30: completion queries go only to devices that are neither empty nor the local
\* one, and in a payload returned a folder payload carries a peer-need summary
\* exactly when at least one such query about the folder succeeded with need bytes
\* above 0; the summary's peer_count is the number of those answers and at least
\* 1, its need_bytes their saturating sum and at least 1.
C30_SummaryOfNeedyAnswers ==
    /\ \A i \in 1..Len(requests) :
           requests[i].path = "/rest/db/completion" =>
               /\ requests[i].device # Some(dEmpty)
               /\ Some(Unwrap(requests[i].device))
                      # SyncthingOverview_from_value(Unwrap(status_value)).my_id
    /\ ReturnedOk =>
           \A k \in 1..Len(Unwrap(result).folders) :
               LET payload == Unwrap(result).folders[k]
                   needy == NeedyAnswers(payload.id)
               IN  /\ IsSome(payload.peers_need_summary) <=> needy # << >>
                   /\ needy # << >> =>
                          LET summary == Unwrap(payload.peers_need_summary)
                          IN  /\ summary.peer_count = Least(Len(needy), U32Max)
                              /\ summary.peer_count >= 1
                              /\ summary.need_bytes = Least(SumNeed(needy), U64Max)
                              /\ summary.need_bytes >= 1

C30_Witness ==
    /\ ReturnedOk
    /\ Len(Unwrap(result).folders) = 2
    /\ Unwrap(result).folders[1].peers_need_summary = None
    /\ \E i \in 1..Len(requests) :
           /\ requests[i].path = "/rest/db/completion"
           /\ requests[i].folder = Some("f1")
           /\ requests[i].ok
           /\ Unwrap(requests[i].body).need_bytes = Some(0)
    /\ Unwrap(result).folders[2].peers_need_summary
           = Some([peer_count |-> 1, need_bytes |-> 3])
    /\ \E i \in FailedCalls({ "/rest/db/completion" }) : requests[i].folder = Some("f2")

====
